---- MODULE Spec2Model ----
(***************************************************************************)
(* Verification model of sonus_iteratus: the loop discovery and synthesis  *)
(* engine (src/audio_processor.py, src/app.py) and the terminal            *)
(* controller (src/tui/app.py, src/tui/modals.py, src/tui/views.py).       *)
(*                                                                         *)
(* Numbers.  Python floats that the code only halves, scales by 0.8 or     *)
(* compares are kept as exact rationals [n |-> numerator, d |-> denom].    *)
(* Similarity values are integers in thousandths.  Where the code takes    *)
(* the floor of a float quotient (create_looped_audio) the rounding of the *)
(* IEEE-754 double division is modelled bit by bit (DivRounding).          *)
(***************************************************************************)
EXTENDS Integers, Sequences, FiniteSets, TLC

(***************************************************************************)
(* Program constants                                                       *)
(***************************************************************************)
hop_length == 512
SampleRate == 22050
num_candidates == 5
\* a retry budget one short of the program's
short_retries == 1 + 1
retries == 3

(***************************************************************************)
(* Bounds of the model                                                     *)
(***************************************************************************)
NumFrames == 8
MaxBumps == 1
MaxSamples == 4
MaxItems == 4
MaxVisible == 3

VARIABLES
    ssm_smooth,             \* flattened smoothed matrix, (N-4)*(N-4) cells, 0-based
    ssm,                    \* unsmoothed affinity matrix, N x N, thousandths
    min_loop_duration_sec,  \* looper field, rational
    peak_height_threshold,  \* looper field, rational (thousandths)
    loop_candidates,        \* looper field, sequence of LoopCandidate
    orig,                   \* the configuration the looper was constructed with
    dpc,                    \* position in find/_retry_loop_detection
    attempt,                \* loop variable of _retry_loop_detection
    retry_result,           \* return value of _retry_loop_detection
    attempt_log,            \* history: one record per discovery call
    y,                      \* looper field: the samples of the loaded waveform
    syn,                    \* one call of create_looped_audio: arguments and result
    pane,                   \* a ListPane: items, selected, scroll
    visible,                \* rows the pane's window shows (h - 2)
    last_op,                \* history: the last ListPane call and the pane before it
    impl,                   \* which controller runs: "TUI" (TUI._main) or "run" (AudioLooperApp.run)
    mode,                   \* where the controller waits for a key, or how it ended
    focus,                  \* 'input', 'output' or 'log'
    input_dir,              \* names in the input folder, in listing order
    output_dir,             \* files in the output folder: [name, audio], in listing order
    input_pane,             \* ListPane 'Input'
    output_pane,            \* ListPane 'Output'
    log_pane,               \* LogPane: number of messages and scroll
    fx,                     \* history: what the last step logged and wrote
    player_proc,            \* the tracked playback process, or "None"
    procs,                  \* the processes spawned and not terminated by the controller
    sess,                   \* locals of the loop/delete handler while a modal is open
    tmp_files,              \* number of temporary files the previews have left on storage
    lg                      \* the rotating log handler and the files of the logs folder

dvars == <<ssm_smooth, ssm, min_loop_duration_sec, peak_height_threshold,
           loop_candidates, orig, dpc, attempt, retry_result, attempt_log>>

svars == <<y, syn>>

pvars == <<pane, visible, last_op>>

cvars == <<impl, mode, focus, input_dir, output_dir, input_pane, output_pane, log_pane,
           fx, player_proc, procs, sess, tmp_files>>

lvars == <<lg>>

vars == <<dvars, svars, pvars, cvars, lvars>>

\* what each part of the model leaves alone
others_d == <<svars, pvars, cvars, lvars>>
others_s == <<dvars, pvars, cvars, lvars>>
others_p == <<dvars, svars, cvars, lvars>>

(***************************************************************************)
(* Helpers                                                                 *)
(***************************************************************************)
Max2(a, b) == IF a >= b THEN a ELSE b
Min2(a, b) == IF a <= b THEN a ELSE b
Abs(a) == IF a >= 0 THEN a ELSE -a
Rat(n, d) == [n |-> n, d |-> d]
RatEq(a, b) == a.n * b.d = b.n * a.d

RECURSIVE Pow(_, _)
Pow(b, e) == IF e = 0 THEN 1 ELSE b * Pow(b, e - 1)

\* dataclass LoopCandidate
LoopCandidate(s, e, sc) == [start |-> s, end |-> e, score |-> sc]
duration_samples(c) == c.end - c.start

(***************************************************************************)
(* find_seamless_loop_points                                               *)
(***************************************************************************)
SmoothSide == NumFrames - 4
FlatLen == SmoothSide * SmoothSide

\* int(self.min_loop_duration_sec * self.sr)
min_loop_samples(mld) == (mld.n * SampleRate) \div mld.d

\* max(min_loop_samples // hop_length, 1)
distance(mld) == Max2(min_loop_samples(mld) \div hop_length, 1)

\* scipy.signal.find_peaks, step 1: the local maxima of the flattened signal;
\* a plateau counts once, at its middle, and the two end cells never count.
RECURSIVE PlateauEnd(_, _)
PlateauEnd(x, i) ==
    IF i + 1 < FlatLen - 1 /\ x[i + 1] = x[i] THEN PlateauEnd(x, i + 1) ELSE i + 1

LocalMaxima(x) ==
    { (l + PlateauEnd(x, l) - 1) \div 2 :
        l \in { i \in 1..(FlatLen - 2) : x[i - 1] < x[i] /\ x[PlateauEnd(x, i)] < x[i] } }

\* step 2: height=self.peak_height_threshold keeps the peaks with x[p] >= height
HeightOk(v, th) == v * th.d >= th.n

\* step 3: distance=distance; peaks are visited from the highest to the lowest
\* (among equal heights the later one first) and each kept peak removes every
\* other peak closer than distance.
HighestPeak(x, S) ==
    CHOOSE p \in S : \A q \in S : x[q] < x[p] \/ (x[q] = x[p] /\ q <= p)

RECURSIVE SelectByPeakDistance(_, _, _, _)
SelectByPeakDistance(x, todo, keep, dist) ==
    IF todo = {} THEN keep
    ELSE LET j == HighestPeak(x, todo) IN
         IF j \notin keep
         THEN SelectByPeakDistance(x, todo \ {j}, keep, dist)
         ELSE SelectByPeakDistance(x, todo \ {j},
                  { k \in keep : k = j \/ Abs(k - j) >= dist }, dist)

find_peaks(x, th, dist) ==
    LET high == { p \in LocalMaxima(x) : HeightOk(x[p], th) }
    IN  SelectByPeakDistance(x, high, high, dist)

\* np.unravel_index(peaks, ssm.shape): the shape used is that of the N x N matrix
unravel_index(p) == <<p \div NumFrames, p % NumFrames>>

\* the set in ascending order, as find_peaks returns its indices
RECURSIVE Ascending(_)
Ascending(S) ==
    IF S = {} THEN <<>>
    ELSE LET m == CHOOSE a \in S : \A b \in S : a <= b
         IN  <<m>> \o Ascending(S \ {m})

\* the for loop over peak_coords: skip the loops that are too short in frames
KeepCoord(rc, mld) == ~(rc[2] - rc[1] < min_loop_samples(mld) \div hop_length)

CandidateAt(S, p) ==
    LET rc == unravel_index(p)
    IN  LoopCandidate(rc[1] * hop_length, rc[2] * hop_length, S[rc])

RECURSIVE Survivors(_, _, _)
Survivors(S, peaks, mld) ==
    IF peaks = <<>> THEN <<>>
    ELSE LET rest == Survivors(S, Tail(peaks), mld)
         IN  IF KeepCoord(unravel_index(Head(peaks)), mld)
             THEN <<CandidateAt(S, Head(peaks))>> \o rest
             ELSE rest

\* list.sort(key=score, reverse=True): stable, equal scores keep their order
RECURSIVE InsertByScore(_, _)
\* mutant: an insertion that lets a later equal score overtake an earlier one
InsertByScoreUnstable(sorted, c) ==
    IF sorted = <<>> THEN <<c>>
    ELSE IF Head(sorted).score > c.score
         THEN <<Head(sorted)>> \o InsertByScore(Tail(sorted), c)
         ELSE <<c>> \o sorted

InsertByScore(sorted, c) ==
    IF sorted = <<>> THEN <<c>>
    ELSE IF Head(sorted).score >= c.score
         THEN <<Head(sorted)>> \o InsertByScore(Tail(sorted), c)
         ELSE <<c>> \o sorted

RECURSIVE SortByScore(_)
SortByScore(cs) ==
    IF cs = <<>> THEN <<>>
    ELSE InsertByScore(SortByScore(SubSeq(cs, 1, Len(cs) - 1)), cs[Len(cs)])

\* mutant: the slice taken from the wrong end, loop_candidates[-num_candidates:]
TruncateTail(cs, k) == SubSeq(cs, Len(cs) - Min2(Len(cs), k) + 1, Len(cs))

\* loop_candidates[:num_candidates]
Truncate(cs, k) == SubSeq(cs, 1, Min2(Len(cs), k))

AllSurvivors(x, S, mld, th) ==
    Survivors(S, Ascending(find_peaks(x, th, distance(mld))), mld)

find_seamless_loop_points(x, S, mld, th) ==
    Truncate(SortByScore(AllSurvivors(x, S, mld, th)), num_candidates)

(***************************************************************************)
(* Inputs of discovery: smoothed signals and affinity matrices             *)
(***************************************************************************)
Cells == 0..(FlatLen - 1)
Heights == {60, 90, 200}

\* a flat background with at most MaxBumps raised cells
RECURSIVE Bumped(_)
Bumped(k) ==
    IF k = 0 THEN { [ i \in Cells |-> 0 ] }
    ELSE LET less == Bumped(k - 1)
         IN  less \cup { [ x EXCEPT ![i] = h ] : x \in less, i \in Cells, h \in Heights }

SparseSignals == Bumped(MaxBumps)

\* combs: teeth (one or two cells wide) every stride cells
ToothHeight(hpat, t) ==
    CASE hpat = 1 -> 200
      [] hpat = 2 -> 60 + 30 * (t % 3)
      [] hpat = 3 -> 200 - 20 * t
      [] OTHER    -> 60

CombSignal(stride, phase, width, hpat) ==
    [ i \in Cells |->
        IF (i % stride) \in { (phase + w) % stride : w \in 0..(width - 1) }
        THEN ToothHeight(hpat, i \div stride) ELSE 0 ]

CombSignals ==
    { CombSignal(q[1], q[2], q[3], q[4]) :
        q \in { r \in (2..4) \X (0..3) \X (1..2) \X (1..4) : r[2] < r[1] } }

SmoothInputs == SparseSignals \cup CombSignals

\* recurrence_matrix(mode='affinity', sym=True): symmetric, empty main diagonal
Coords == (0..(NumFrames - 1)) \X (0..(NumFrames - 1))
AffinityAt(kind, r, c) ==
    IF r = c THEN 0
    ELSE CASE kind = 1 -> 500
           [] kind = 2 -> 100 * Abs(r - c)
           [] OTHER    -> 100 + 100 * ((r + c) % 3)

AffinityMatrices == { [ rc \in Coords |-> AffinityAt(kind, rc[1], rc[2]) ] : kind \in 1..3 }

\* the configurations a looper is constructed with
MinLoopDurations == { Rat(1, 10), Rat(1, 40) }
PeakThresholds == { Rat(100, 1), Rat(300, 1) }

(***************************************************************************)
(* The discovery session: the first call and _retry_loop_detection         *)
(***************************************************************************)
LogEntry(k, mld, th, outcome, cands) ==
    [k |-> k, mld |-> mld, th |-> th, outcome |-> outcome, cands |-> cands]

\* the log handler when no logging is modelled
IdleLog == lg = [n |-> 0]

\* the synthesis variables when no synthesis is modelled
IdleSynth == y = <<>> /\ syn = [pc |-> "idle"]

\* the pane variables when no pane is modelled
IdlePane == pane = [items |-> <<>>, selected |-> 0, scroll |-> 0]
            /\ visible = 1 /\ last_op = [op |-> "none"]

\* the controller variables when no controller is modelled
IdleController ==
    /\ impl = "none" /\ mode = "idle" /\ focus = "input"
    /\ input_dir = <<>> /\ output_dir = <<>>
    /\ input_pane = [items |-> <<>>, selected |-> 0, scroll |-> 0]
    /\ output_pane = [items |-> <<>>, selected |-> 0, scroll |-> 0]
    /\ log_pane = [count |-> 0, scroll |-> 0]
    /\ fx = [log |-> <<>>] /\ player_proc = 0 /\ procs = {}
    /\ sess = [kind |-> "none"] /\ tmp_files = 0

\* the discovery variables when no discovery is modelled
IdleDiscovery ==
    /\ ssm_smooth = <<>> /\ ssm = <<>>
    /\ min_loop_duration_sec = Rat(1, 10) /\ peak_height_threshold = Rat(100, 1)
    /\ loop_candidates = <<>>
    /\ orig = [mld |-> min_loop_duration_sec, th |-> peak_height_threshold]
    /\ dpc = "idle" /\ attempt = 0 /\ retry_result = "none" /\ attempt_log = <<>>

InitDiscovery ==
    /\ IdleLog
    /\ IdleSynth
    /\ IdlePane
    /\ IdleController
    /\ ssm_smooth \in SmoothInputs
    /\ ssm \in AffinityMatrices
    /\ min_loop_duration_sec \in MinLoopDurations
    /\ peak_height_threshold \in PeakThresholds
    /\ loop_candidates = <<>>
    /\ orig = [mld |-> min_loop_duration_sec, th |-> peak_height_threshold]
    /\ dpc = "first"
    /\ attempt = 0
    /\ retry_result = "none"
    /\ attempt_log = <<>>

\* candidates = looper.find_seamless_loop_points(); if not candidates: retry
FirstAttempt ==
    /\ dpc = "first"
    /\ LET cs == find_seamless_loop_points(ssm_smooth, ssm,
                     min_loop_duration_sec, peak_height_threshold)
       IN  /\ loop_candidates' = cs
           /\ dpc' = IF cs = <<>> THEN "retry" ELSE "done"
           /\ attempt_log' = Append(attempt_log,
                  LogEntry(0, min_loop_duration_sec, peak_height_threshold,
                           IF cs = <<>> THEN "empty" ELSE "found", cs))
    /\ UNCHANGED <<ssm_smooth, ssm, min_loop_duration_sec, peak_height_threshold,
                   orig, attempt, retry_result, others_d>>

\* looper.min_loop_duration_sec /= 2 ; looper.peak_height_threshold *= 0.8
Halve(q) == Rat(q.n, q.d * 2)
\* mutant: a different relaxation factor
Scale09(q) == Rat(q.n * 9, q.d * 10)

Scale08(q) == Rat(q.n * 4, q.d * 5)

\* mutant: an iteration that goes on relaxing after candidates were found
RetryIterationNoStop(raises) ==
    /\ dpc = "retry"
    /\ attempt < retries
    /\ LET k   == attempt + 1
           mld == Halve(min_loop_duration_sec)
           th  == Scale08(peak_height_threshold)
           cs  == IF raises THEN loop_candidates
                  ELSE find_seamless_loop_points(ssm_smooth, ssm, mld, th)
       IN  /\ attempt' = k
           /\ min_loop_duration_sec' = mld
           /\ peak_height_threshold' = th
           /\ loop_candidates' = cs
           /\ attempt_log' = Append(attempt_log,
                  LogEntry(k, mld, th,
                           IF raises THEN "error"
                           ELSE IF cs = <<>> THEN "empty" ELSE "found", cs))
           /\ retry_result' = IF k < retries THEN "none"
                              ELSE IF cs # <<>> THEN "true" ELSE "false"
           /\ dpc' = IF k = retries THEN "done" ELSE "retry"
    /\ UNCHANGED <<ssm_smooth, ssm, orig, others_d>>

\* the body of "for attempt in range(1, retries + 1)" on the looper's fields;
\* raises: whether the discovery call of this iteration throws
RetryStep(x, S, mld, th, cands, raises) ==
    LET cs == IF raises THEN cands
              ELSE find_seamless_loop_points(x, S, Halve(mld), Scale08(th))
    IN  [mld |-> Halve(mld), th |-> Scale08(th), cands |-> cs,
         hit |-> (~raises /\ cs # <<>>),
         outcome |-> IF raises THEN "error" ELSE IF cs = <<>> THEN "empty" ELSE "found"]

\* an iteration without the try/except: the exception of the discovery call
\* leaves the policy
RetryIterationEscapes(raises) ==
    /\ dpc = "retry"
    /\ attempt < retries
    /\ LET k == attempt + 1
           r == RetryStep(ssm_smooth, ssm, min_loop_duration_sec,
                          peak_height_threshold, loop_candidates, raises)
       IN  /\ attempt' = k
           /\ min_loop_duration_sec' = r.mld
           /\ peak_height_threshold' = r.th
           /\ loop_candidates' = r.cands
           /\ attempt_log' = Append(attempt_log, LogEntry(k, r.mld, r.th, r.outcome, r.cands))
           /\ retry_result' = IF raises THEN "raised"
                              ELSE IF r.hit THEN "true"
                              ELSE IF k = retries THEN "false" ELSE "none"
           /\ dpc' = IF raises \/ r.hit \/ k = retries THEN "done" ELSE "retry"
    /\ UNCHANGED <<ssm_smooth, ssm, orig, others_d>>

\* one iteration of the loop, as a step of the discovery session
RetryIteration(raises) ==
    /\ dpc = "retry"
    /\ attempt < retries
    /\ LET k == attempt + 1
           r == RetryStep(ssm_smooth, ssm, min_loop_duration_sec,
                          peak_height_threshold, loop_candidates, raises)
       IN  /\ attempt' = k
           /\ min_loop_duration_sec' = r.mld
           /\ peak_height_threshold' = r.th
           /\ loop_candidates' = r.cands
           /\ attempt_log' = Append(attempt_log, LogEntry(k, r.mld, r.th, r.outcome, r.cands))
           /\ retry_result' = IF r.hit THEN "true"
                              ELSE IF k = retries THEN "false" ELSE "none"
           /\ dpc' = IF r.hit \/ k = retries THEN "done" ELSE "retry"
    /\ UNCHANGED <<ssm_smooth, ssm, orig, others_d>>

\* _retry_loop_detection run to its return, k attempts already made
RECURSIVE retry_loop_detection(_, _, _, _, _, _)
retry_loop_detection(x, S, mld, th, cands, k) ==
    IF k = retries
    THEN [result |-> FALSE, mld |-> mld, th |-> th, cands |-> cands, attempts |-> k]
    ELSE LET r == RetryStep(x, S, mld, th, cands, FALSE)
         IN  IF r.hit
             THEN [result |-> TRUE, mld |-> r.mld, th |-> r.th, cands |-> r.cands,
                   attempts |-> k + 1]
             ELSE retry_loop_detection(x, S, r.mld, r.th, r.cands, k + 1)

RetryAttempt == \E raises \in BOOLEAN : RetryIteration(raises)

NextDiscovery == FirstAttempt \/ RetryAttempt

SpecDiscovery == InitDiscovery /\ [][NextDiscovery]_vars

(***************************************************************************)
(* Claims about discovery and the retry policy (SpecDiscovery)             *)
(***************************************************************************)
Returned == { i \in 1..Len(attempt_log) : attempt_log[i].outcome # "error" }
RetryEntries == { i \in 1..Len(attempt_log) : attempt_log[i].k >= 1 }
SeqRange(q) == { q[i] : i \in 1..Len(q) }

\* C2: every candidate a discovery call returns has start < end and spans at
\* least min_loop_samples of the configuration that call ran with.
C2_CandidatesSpanMinimum ==
    \A i \in Returned : \A c \in SeqRange(attempt_log[i].cands) :
        /\ c.start < c.end
        /\ c.end - c.start >= min_loop_samples(attempt_log[i].mld)

\* C3: the retry policy makes at most 3 attempts, stops at the first attempt
\* that finds candidates (answering true and relaxing no further), and answers
\* false exactly when all 3 attempts found none.
Relaxed(k) == [mld |-> Rat(orig.mld.n, orig.mld.d * Pow(2, k)),
               th  |-> Rat(orig.th.n * Pow(4, k), orig.th.d * Pow(5, k))]

C3_RetryStopsAtFirstSuccess ==
    /\ attempt <= retries
    /\ Cardinality(RetryEntries) = attempt
    /\ \A i \in RetryEntries : i < Len(attempt_log) => attempt_log[i].outcome # "found"
    /\ (dpc = "retry") => \A i \in 1..Len(attempt_log) : attempt_log[i].outcome # "found"
    /\ (retry_result = "true") <=>
           (dpc = "done" /\ attempt >= 1 /\ attempt_log[Len(attempt_log)].outcome = "found")
    /\ (retry_result = "false") <=>
           (dpc = "done" /\ attempt = retries /\ Cardinality(RetryEntries) = retries
              /\ \A i \in RetryEntries : attempt_log[i].outcome # "found")
    /\ (dpc = "done") =>
           /\ RatEq(min_loop_duration_sec, Relaxed(attempt).mld)
           /\ RatEq(peak_height_threshold, Relaxed(attempt).th)
           /\ (retry_result = "true" => loop_candidates # <<>>)

C3_Witness ==
    /\ dpc = "done" /\ retry_result = "true" /\ attempt = 2
    /\ attempt_log[2].outcome = "empty"

\* C4: the k-th retry attempt runs with the original minimum duration divided
\* by 2^k and the original threshold multiplied by 0.8^k, and the two fields
\* always hold the original values relaxed once per attempt made.
C4_RelaxationIsCumulative ==
    /\ \A i \in 1..Len(attempt_log) :
           /\ RatEq(attempt_log[i].mld, Relaxed(attempt_log[i].k).mld)
           /\ RatEq(attempt_log[i].th, Relaxed(attempt_log[i].k).th)
           /\ attempt_log[i].k = i - 1
    /\ RatEq(min_loop_duration_sec, Relaxed(attempt).mld)
    /\ RatEq(peak_height_threshold, Relaxed(attempt).th)

C4_Witness ==
    /\ attempt = 3 /\ Len(attempt_log) = 4 /\ attempt_log[4].k = 3
    /\ RatEq(peak_height_threshold, Rat(orig.th.n * 64, orig.th.d * 125))

\* C7: the stored candidates are in non-increasing score order and candidates
\* of equal score appear in discovery order (ascending flat index of the peak).
FlatIndexOf(c) == (c.start \div hop_length) * NumFrames + (c.end \div hop_length)

SortedStable(cs) ==
    \A i \in 1..Len(cs) : \A j \in 1..Len(cs) :
        i < j => /\ cs[i].score >= cs[j].score
                 /\ (cs[i].score = cs[j].score => FlatIndexOf(cs[i]) < FlatIndexOf(cs[j]))

C7_SortedByScoreStable ==
    /\ SortedStable(loop_candidates)
    /\ \A i \in Returned : SortedStable(attempt_log[i].cands)

C7_Witness ==
    /\ Len(loop_candidates) >= 3
    /\ \E i \in 1..Len(loop_candidates) : \E j \in 1..Len(loop_candidates) :
           i < j /\ loop_candidates[i].score = loop_candidates[j].score
    /\ \E i \in 1..Len(loop_candidates) : \E j \in 1..Len(loop_candidates) :
           loop_candidates[i].score > loop_candidates[j].score

\* C8: after every call that returns, the stored set is the returned set, has
\* at most num_candidates members, and no surviving candidate left out scores
\* higher than one that was kept.
SurvivorsOf(e) == SeqRange(AllSurvivors(ssm_smooth, ssm, e.mld, e.th))

TopOfSurvivors(cs, all) ==
    /\ Len(cs) <= num_candidates
    /\ Len(cs) = Min2(Cardinality(all), num_candidates)
    /\ SeqRange(cs) \subseteq all
    /\ Cardinality(SeqRange(cs)) = Len(cs)
    /\ \A s \in all \ SeqRange(cs) : \A c \in SeqRange(cs) : c.score >= s.score

C8_AtMostFiveBestKept ==
    /\ Len(loop_candidates) <= num_candidates
    /\ \A i \in Returned : TopOfSurvivors(attempt_log[i].cands, SurvivorsOf(attempt_log[i]))
    /\ (attempt_log # <<>> /\ Len(attempt_log) \in Returned) =>
           loop_candidates = attempt_log[Len(attempt_log)].cands

C8_Witness ==
    /\ attempt_log # <<>>
    /\ Len(attempt_log) \in Returned
    /\ Cardinality(SurvivorsOf(attempt_log[Len(attempt_log)])) > num_candidates
    /\ Len(loop_candidates) = num_candidates
    /\ \E s \in SurvivorsOf(attempt_log[Len(attempt_log)]) \ SeqRange(loop_candidates) :
           \E c \in SeqRange(loop_candidates) : c.score > s.score

(***************************************************************************)
(* create_looped_audio                                                     *)
(***************************************************************************)
RECURSIVE BitLength(_)
BitLength(n) == IF n = 0 THEN 0 ELSE 1 + BitLength(n \div 2)

\* The sign of fl(a / b) - a / b for the IEEE-754 double division a / b of two
\* positive integers: binary long division to 53 significant bits, then round
\* to nearest, ties to even.  1: rounded up, -1: rounded down, 0: exact.
RECURSIVE LongDivision(_, _, _, _)
LongDivision(rem, b, bits, last) ==
    IF rem = 0 THEN 0
    ELSE IF bits >= 53
         THEN IF 2 * rem > b THEN 1
              ELSE IF 2 * rem < b THEN -1
              ELSE IF last = 1 THEN 1 ELSE -1
         ELSE LET bit == (2 * rem) \div b
              IN  LongDivision((2 * rem) % b, b,
                               IF bits > 0 \/ bit = 1 THEN bits + 1 ELSE bits,
                               IF bits > 0 \/ bit = 1 THEN bit ELSE last)

DivRounding(a, b) == LongDivision(a % b, b, BitLength(a \div b), (a \div b) % 2)

\* LoopCandidate.duration_seconds(sr) = duration_samples / sr is a double; the
\* target T = t.n / t.d is a dyadic rational, exact as a double.
\* mutant: the quotient rounded up instead of down
num_reps_ceil(c, t, rate) ==
    LET D == duration_samples(c)
        q == (t.n * rate + t.d * D - 1) \div (t.d * D)
    IN  IF q = 0 THEN 1 ELSE q

\* int(target_duration_sec // loop_duration_sec): the floor of T / fl(D / sr),
\* one less than floor(T*sr/D) when T*sr/D is a whole number and the division
\* D / sr was rounded up; if num_reps == 0: num_reps = 1
floor_div(c, t, rate) ==
    LET D == duration_samples(c)
        q == (t.n * rate) \div (t.d * D)
    IN  IF q >= 1 /\ (t.n * rate) % (t.d * D) = 0 /\ DivRounding(D, rate) = 1
        THEN q - 1 ELSE q

num_reps(c, t, rate) ==
    IF floor_div(c, t, rate) = 0 THEN 1 ELSE floor_div(c, t, rate)

\* self.y[loop_candidate.start:loop_candidate.end]
loop_segment(samples, c) == SubSeq(samples, c.start + 1, Min2(c.end, Len(samples)))

\* np.tile(loop_segment, num_reps)
tile(seg, n) == [ i \in 1..(n * Len(seg)) |-> seg[((i - 1) % Len(seg)) + 1] ]

create_looped_audio(samples, c, t, rate) ==
    tile(loop_segment(samples, c), num_reps(c, t, rate))

\* inputs: a short waveform of distinct samples, every candidate inside it, and
\* targets from "0" to half a second
Waveform(len) == [ i \in 1..len |-> 100 + i ]
SynthCandidates ==
    { LoopCandidate(ab[1], ab[2], 500) :
        ab \in { q \in (0..MaxSamples) \X (0..MaxSamples) : q[1] < q[2] } }
SynthTargets == { Rat(0, 1), Rat(1, 8192), Rat(1, 4096), Rat(3, 8192), Rat(1, 4), Rat(1, 2) }

InitSynth ==
    /\ IdleLog
    /\ y = Waveform(MaxSamples)
    /\ \E c \in SynthCandidates : \E t \in SynthTargets :
           syn = [pc |-> "call", cand |-> c, target |-> t]
    /\ IdleDiscovery
    /\ IdlePane
    /\ IdleController

CreateLoopedAudio ==
    /\ syn.pc = "call"
    /\ syn' = [pc |-> "done", cand |-> syn.cand, target |-> syn.target,
               warned |-> (floor_div(syn.cand, syn.target, SampleRate) = 0),
               looped_audio |-> create_looped_audio(y, syn.cand, syn.target, SampleRate)]
    /\ UNCHANGED <<y, others_s>>

NextSynth == CreateLoopedAudio

SpecSynth == InitSynth /\ [][NextSynth]_vars

(***************************************************************************)
(* Claims about synthesis (SpecSynth)                                      *)
(***************************************************************************)
SynD == duration_samples(syn.cand)
\* floor(T * sr / D) in exact arithmetic
ExactReps == (syn.target.n * SampleRate) \div (syn.target.d * SynD)
\* T >= D / sr, that is, the repetition count is not forced to 1
TargetCoversLoop == syn.target.n * SampleRate >= syn.target.d * SynD

IsRepetition(buf, seg, n) ==
    /\ Len(buf) = n * Len(seg)
    /\ \A i \in 1..Len(buf) : buf[i] = seg[((i - 1) % Len(seg)) + 1]

\* C5: the buffer is samples[start:end] repeated reps times with nothing in
\* between, reps = floor(T*sr/D) when that is at least 1 and 1 when T < D/sr.
C5_RepsIsFloorOfRatio ==
    syn.pc = "done" =>
        LET reps == IF ExactReps >= 1 THEN ExactReps ELSE 1
        IN  /\ Len(syn.looped_audio) = reps * SynD
            /\ IsRepetition(syn.looped_audio,
                            SubSeq(y, syn.cand.start + 1, syn.cand.end), reps)

\* C6 as stated: whenever T >= D/sr the output has at least T*sr samples.
C6_NeverUndershoots ==
    (syn.pc = "done" /\ TargetCoversLoop) =>
        Len(syn.looped_audio) * syn.target.d >= syn.target.n * SampleRate

\* C6 amended: whenever T >= D/sr the output has at most T*sr samples and
\* falls short of T*sr by at most one segment (D samples).
C6_NeverOvershoots ==
    (syn.pc = "done" /\ TargetCoversLoop) =>
        /\ Len(syn.looped_audio) * syn.target.d <= syn.target.n * SampleRate
        /\ Len(syn.looped_audio) * syn.target.d >= syn.target.n * SampleRate - SynD * syn.target.d
        /\ Len(syn.looped_audio) % SynD = 0

C6_Witness ==
    /\ syn.pc = "done" /\ TargetCoversLoop /\ ~syn.warned
    /\ Len(syn.looped_audio) >= 2 * SynD
    /\ Len(syn.looped_audio) * syn.target.d < syn.target.n * SampleRate

(***************************************************************************)
(* ListPane (tui/views.py)                                                 *)
(***************************************************************************)
KEY_UP == "KEY_UP"
KEY_DOWN == "KEY_DOWN"

\* ListPane.__init__
NewListPane == [items |-> <<>>, selected |-> 0, scroll |-> 0]

\* mutant: the scroll follows the selection upwards only
adjust_scroll_up_only(p, vis) ==
    IF p.selected < p.scroll THEN [p EXCEPT !.scroll = p.selected] ELSE p

\* ListPane._adjust_scroll
adjust_scroll(p, vis) ==
    IF p.selected < p.scroll THEN [p EXCEPT !.scroll = p.selected]
    ELSE IF p.selected >= p.scroll + vis
         THEN [p EXCEPT !.scroll = p.selected - vis + 1]
         ELSE p

\* ListPane.set_items
set_items(p, items, vis) ==
    adjust_scroll([items |-> items,
                   selected |-> IF p.selected >= Len(items)
                                THEN Max2(0, Len(items) - 1) ELSE p.selected,
                   scroll |-> p.scroll], vis)

\* ListPane.handle_key
handle_key(p, key, vis) ==
    IF key \notin {KEY_UP, KEY_DOWN} THEN p
    ELSE IF p.items = <<>> THEN p
    ELSE adjust_scroll(
             [p EXCEPT !.selected = IF key = KEY_UP
                                    THEN (p.selected - 1) % Len(p.items)
                                    ELSE (p.selected + 1) % Len(p.items)], vis)

\* ListPane.get_selected; None is modelled as "None"
get_selected(p) == IF p.items = <<>> THEN "None" ELSE p.items[p.selected + 1]

ItemLists == { [ i \in 1..n |-> i ] : n \in 0..MaxItems }
PaneKeys == {KEY_UP, KEY_DOWN, "p"}

InitPane ==
    /\ IdleLog
    /\ pane = NewListPane
    /\ visible \in 1..MaxVisible
    /\ last_op = [op |-> "none"]
    /\ IdleDiscovery
    /\ IdleSynth
    /\ IdleController

SetItems ==
    \E items \in ItemLists :
        /\ pane' = set_items(pane, items, visible)
        /\ last_op' = [op |-> "set_items", before |-> pane]
        /\ UNCHANGED <<visible, others_p>>

HandleKey ==
    \E key \in PaneKeys :
        /\ pane' = handle_key(pane, key, visible)
        /\ last_op' = [op |-> key, before |-> pane]
        /\ UNCHANGED <<visible, others_p>>

NextPane == SetItems \/ HandleKey

SpecPane == InitPane /\ [][NextPane]_vars

(***************************************************************************)
(* Claims about the list pane (SpecPane)                                   *)
(***************************************************************************)
\* C9: with at least one visible row, after any sequence of set_items and
\* handle_key calls a non-empty pane has 0 <= selected < len(items) and
\* scroll <= selected < scroll + visible_rows; UP and DOWN wrap around and do
\* nothing on an empty list.
PaneInvariant(p, vis) ==
    p.items # <<>> =>
        /\ 0 <= p.selected /\ p.selected < Len(p.items)
        /\ p.scroll <= p.selected /\ p.selected < p.scroll + vis

C9_SelectionVisibleAndWraps ==
    /\ PaneInvariant(pane, visible)
    /\ last_op.op \in {KEY_UP, KEY_DOWN} =>
           /\ pane.items = last_op.before.items
           /\ last_op.before.items = <<>> => pane = last_op.before
           /\ last_op.before.items # <<>> =>
                  LET n == Len(pane.items)
                      b == last_op.before.selected
                  IN  IF last_op.op = KEY_UP
                      THEN pane.selected = (IF b = 0 THEN n - 1 ELSE b - 1)
                      ELSE pane.selected = (IF b = n - 1 THEN 0 ELSE b + 1)

C9_Witness ==
    /\ last_op.op = KEY_UP
    /\ Len(pane.items) > visible
    /\ last_op.before.selected = 0
    /\ pane.selected = Len(pane.items) - 1
    /\ pane.scroll > 0

----
\* TUI._main: the curses controller, observed at each getch

\* layout of the screen (rows)
legend_h == 1
log_h == 7
MaxY == 12

\* bounds of the controller's inputs
MaxLog == 6
MaxInput == 1
MaxProcs == 2
MaxOutputs == 1
MaxTmp == 1

pane_h == MaxY - legend_h - log_h
PaneRows == pane_h - 2
LogRows == log_h - 2

\* the looper's construction arguments: "self.min_loop_duration or 0.1" and the
\* default of --peak-threshold
DefaultMinLoop == Rat(1, 10)
DefaultPeakThreshold == Rat(100, 1)

\* files of the input folder, each a stem and the characters of its suffix:
\* "a" has two loops, "b" none, "c" one faint loop, "x" is not an audio file,
\* "d.WAV" and "e.Wav" are audio files named in other cases, "n.txt" is a note;
\* "g" (not in the library) has the loops of "a", all of them faint
File(stem, ext) == [stem |-> stem, ext |-> ext]
WavFile(stem) == File(stem, <<"w", "a", "v">>)
Library ==
    <<WavFile("a"), WavFile("b"), WavFile("c"), WavFile("x"),
      File("d", <<"W", "A", "V">>), File("e", <<"W", "a", "v">>),
      File("n", <<"t", "x", "t">>)>>

\* SirenLooper._load_audio raises RuntimeError: librosa.load fails on the file
LoadFails(f) == f.stem = "x"
InputFolders == { <<>>, Library }

\* the smoothed similarity of a file, flattened, and its recurrence matrix
SmoothedOf(stem) ==
    CASE stem = "a" -> CombSignal(3, 1, 1, 1)
      [] stem = "c" -> [ i \in Cells |-> IF i = 4 THEN 60 ELSE 0 ]
      [] stem = "g" -> CombSignal(3, 1, 1, 4)
      [] OTHER      -> [ i \in Cells |-> 0 ]
AffinityOf(stem) == [ rc \in Coords |-> AffinityAt(2, rc[1], rc[2]) ]

\* FS.get_sound_input_files: Path.glob("*.wav"), which on the POSIX paths the
\* program runs on (it plays with aplay) compares the characters as they are
get_sound_input_files(dir) == SelectSeq(dir, LAMBDA f : f.ext = <<"w", "a", "v">>)

\* sound_output_folder.glob('*.wav'): every output is named "<...>s.wav"
OutputListing(dir) == [ i \in 1..Len(dir) |-> dir[i].name ]

\* an output already in the folder when the program starts
OldOutput == [name |-> [stem |-> "a", rank |-> 1, secs |-> 5],
              audio |-> [start |-> 0, end |-> 3584, reps |-> 30]]
OutputFolders == { <<>>, <<OldOutput>> }

\* the folders the program starts on: every input folder with every output
\* folder, and an output folder of two files beside an empty input folder
OlderOutput == [name |-> [stem |-> "c", rank |-> 1, secs |-> 50],
                audio |-> [start |-> 0, end |-> 2048, reps |-> 500]]
InitialFolders ==
    (InputFolders \X OutputFolders) \cup { << <<>>, <<OlderOutput, OldOutput>> >> }

\* LogPane: only the number of messages is kept, and counts above MaxLog are
\* kept as MaxLog
add_message(lp, n) == [count |-> Min2(lp.count + n, MaxLog), scroll |-> 0]
log_handle_key(lp, key) ==
    LET max_scroll == Max2(0, lp.count - LogRows)
        delta == IF key = KEY_UP THEN -1 ELSE 1
    IN  [lp EXCEPT !.scroll = Max2(0, Min2(lp.scroll + delta, max_scroll))]

\* subprocess.Popen / Popen.terminate on the set of live processes, each the
\* main player ("aplay" on a listed file) or a preview ("aplay" on a temporary
\* file); a handle is a pid, and "player_proc = None" is the pid NoProc
NoProc == 0
NewPid(ps) ==
    CHOOSE n \in 1..MaxProcs :
        /\ n \notin { q.pid : q \in ps }
        /\ \A m \in 1..(n - 1) : m \in { q.pid : q \in ps }
Popen(ps, what) == ps \cup { [pid |-> NewPid(ps), what |-> what] }
\* mutant: a terminate that leaves the process running
terminate_nothing(ps, pid) == ps
terminate(ps, pid) == { q \in ps : q.pid # pid }

\* tempfile.NamedTemporaryFile(suffix='.wav', delete=False) followed by sf.write:
\* one more file on storage, which nothing removes. Counts above MaxTmp are
\* kept as MaxTmp
NamedTemporaryFile(n) == Min2(n + 1, MaxTmp)

\* float(prompt): digits with at most one '.', and at least one digit
Digits == {"0", "5"}
PromptChars == Digits \cup {"."}
DigitValue(ch) == CASE ch = "5" -> 5 [] ch = "1" -> 1 [] OTHER -> 0
DotCount(inp) == Cardinality({ i \in 1..Len(inp) : inp[i] = "." })
IsFloat(inp) == DotCount(inp) <= 1 /\ Len(inp) > DotCount(inp)
RECURSIVE DigitsValue(_)
DigitsValue(ds) ==
    IF ds = <<>> THEN 0
    ELSE 10 * DigitsValue(SubSeq(ds, 1, Len(ds) - 1)) + DigitValue(ds[Len(ds)])
ParseFloat(inp) ==
    LET dot == IF DotCount(inp) = 0 THEN Len(inp)
               ELSE CHOOSE i \in 1..Len(inp) : inp[i] = "."
        ds == SelectSeq(inp, LAMBDA ch : ch # ".")
    IN  Rat(DigitsValue(ds), Pow(10, Len(inp) - dot))

\* int(target)
int(t) == t.n \div t.d

\* LoopCandidate.duration_seconds compared with the target: "target < 2 * loop_d"
TooShort(t, c) == t.n * SampleRate < 2 * duration_samples(c) * t.d

\* a position that is always the first
first_position(cs, c) == 1

\* candidates.index(chosen)
index(cs, c) == CHOOSE i \in 1..Len(cs) : cs[i] = c /\ \A j \in 1..(i - 1) : cs[j] # c

\* sf.write into the output folder: a file of that name is replaced
WriteFile(dir, f) ==
    IF \E i \in 1..Len(dir) : dir[i].name = f.name
    THEN [ i \in 1..Len(dir) |-> IF dir[i].name = f.name THEN f ELSE dir[i] ]
    ELSE Append(dir, f)

\* a deletion that removes nothing
unlink_nothing(dir, name) == dir

\* an unlink that passes over a missing file
missing_ok(dir, name) == FALSE

\* Path.unlink raises FileNotFoundError: no file of that name is in the folder
FileNotFoundError(dir, name) == \A i \in 1..Len(dir) : dir[i].name # name

\* Path.unlink
unlink(dir, name) == SelectSeq(dir, LAMBDA f : f.name # name)

\* the samples of a looped buffer, named by the segment and its repetitions
LoopedAudio(c, t) == [start |-> c.start, end |-> c.end, reps |-> num_reps(c, t, SampleRate)]

\* what the last step did: the messages it appended to the log pane, the file
\* it wrote, the candidate it was asked to loop, the retry attempts it logged
\* with logging.info, the texts it painted on the log window without appending
\* them, the path it gave to the player it spawned, the key it read when no
\* branch of the dispatch took it, and the handle an up/down key terminated
FxAll(log, wrote, chosen, retried, drawn) ==
    [log |-> log, wrote |-> wrote, chosen |-> chosen, retried |-> retried,
     drawn |-> drawn, played |-> <<>>, ignored |-> <<>>, stopped |-> <<>>]
Fx(log, wrote, chosen) == FxAll(log, wrote, chosen, 0, <<>>)
NoFx == Fx(<<>>, <<>>, <<>>)
FxPlayed(log, path) == [NoFx EXCEPT !.log = log, !.played = <<path>>]

\* the locals of a key handler that is inside a modal
Sess(kind, file, cands, sel, player, chosen, inp, confirm) ==
    [kind |-> kind, file |-> file, candidates |-> cands, selected |-> sel,
     modal_player |-> player, chosen |-> chosen, inp |-> inp, confirm |-> confirm]
NoSess == Sess("none", <<>>, <<>>, 0, NoProc, <<>>, <<>>, TRUE)

\* AudioLooperApp.run: sel_idx is a local of tui_main that outlives the handler
\* which assigned it, and is unbound until the first selection modal
Unbound == -1
RunLocals(sel_idx) == [NoSess EXCEPT !.selected = sel_idx]

\* the state at the first getch: tui/app.py lines 53-70, app.py lines 132-246,
\* when the program starts on one of folders
InitOn(folders) ==
    /\ IdleLog
    /\ IdleDiscovery /\ IdleSynth /\ IdlePane
    /\ impl \in {"TUI", "run"}
    /\ mode = "Browsing" /\ focus = "input"
    /\ \E fo \in folders : input_dir = fo[1] /\ output_dir = fo[2]
    /\ input_pane = set_items(NewListPane, get_sound_input_files(input_dir), PaneRows)
    /\ output_pane = set_items(NewListPane, OutputListing(output_dir), PaneRows)
    /\ log_pane = [count |-> 0, scroll |-> 0]
    /\ fx = NoFx /\ player_proc = NoProc /\ procs = {}
    /\ sess = IF impl = "TUI" THEN NoSess ELSE RunLocals(Unbound)
    /\ tmp_files = 0

Init == InitOn(InitialFolders)

\* "continue" / the end of a handler: back to the top of the loop, where both
\* panes are given the current listings (lines 62-70)
TopOfLoop(ip, op, outdir) ==
    /\ mode' = "Browsing"
    /\ sess' = NoSess
    /\ output_dir' = outdir
    /\ input_pane' = set_items(ip, get_sound_input_files(input_dir), PaneRows)
    /\ output_pane' = set_items(op, OutputListing(outdir), PaneRows)
    /\ UNCHANGED input_dir

\* the handler's looper is out of scope
NoLooper ==
    /\ ssm_smooth' = <<>> /\ ssm' = <<>>
    /\ min_loop_duration_sec' = DefaultMinLoop
    /\ peak_height_threshold' = DefaultPeakThreshold
    /\ loop_candidates' = <<>>
    /\ orig' = [mld |-> DefaultMinLoop, th |-> DefaultPeakThreshold]
    /\ dpc' = "idle" /\ attempt' = 0 /\ retry_result' = "none" /\ attempt_log' = <<>>

\* key == ord('q'): break
KeyQuit ==
    /\ impl = "TUI" /\ mode = "Browsing"
    /\ mode' = "Exited"
    /\ fx' = NoFx
    /\ UNCHANGED <<focus, input_dir, output_dir, input_pane, output_pane, log_pane,
                   player_proc, procs, sess, dvars, svars, pvars, lvars, impl, tmp_files>>

\* a cycle in the opposite direction
cycle_back(f) == CASE f = "input" -> "log" [] f = "log" -> "output" [] OTHER -> "input"
\* {'input': 'output', 'output': 'log', 'log': 'input'}[focus]
cycle(f) == CASE f = "input" -> "output" [] f = "output" -> "log" [] OTHER -> "input"

\* key == 9
KeyTab ==
    /\ impl = "TUI" /\ mode = "Browsing"
    /\ focus' = cycle(focus)
    /\ TopOfLoop(input_pane, output_pane, output_dir)
    /\ fx' = NoFx
    /\ UNCHANGED <<log_pane, player_proc, procs, dvars, svars, pvars, lvars, impl, tmp_files>>

\* key in (KEY_UP, KEY_DOWN)
KeyUpDown ==
    /\ impl = "TUI" /\ mode = "Browsing"
    /\ \E key \in {KEY_UP, KEY_DOWN} :
        IF focus = "log"
        THEN /\ log_pane' = log_handle_key(log_pane, key)
             /\ TopOfLoop(input_pane, output_pane, output_dir)
             /\ fx' = NoFx
             /\ UNCHANGED <<player_proc, procs>>
        ELSE /\ IF player_proc # NoProc
                THEN /\ procs' = terminate(procs, player_proc)
                     /\ player_proc' = NoProc
                     /\ fx' = [NoFx EXCEPT !.stopped = <<player_proc>>]
                ELSE /\ fx' = NoFx
                     /\ UNCHANGED <<player_proc, procs>>
             /\ IF focus = "input"
                THEN TopOfLoop(handle_key(input_pane, key, PaneRows), output_pane, output_dir)
                ELSE TopOfLoop(input_pane, handle_key(output_pane, key, PaneRows), output_dir)
             /\ UNCHANGED log_pane
    /\ UNCHANGED <<focus, dvars, svars, pvars, lvars, impl, tmp_files>>

\* key == ord('p')
KeyPlay ==
    /\ impl = "TUI" /\ mode = "Browsing"
    /\ LET p == IF focus = "input" THEN input_pane ELSE output_pane
           selected == get_selected(p)
       IN  IF p.items = <<>>
           THEN /\ fx' = NoFx
                /\ UNCHANGED <<player_proc, procs, log_pane>>
           ELSE IF player_proc # NoProc
           THEN /\ procs' = terminate(procs, player_proc)
                /\ player_proc' = NoProc
                /\ log_pane' = add_message(log_pane, 1)
                /\ fx' = Fx(<<"Stopped playing">>, <<>>, <<>>)
           ELSE /\ Cardinality(procs) < MaxProcs
                /\ player_proc' = NewPid(procs)
                /\ procs' = Popen(procs, "main")
                /\ log_pane' = add_message(log_pane, 1)
                /\ fx' = FxPlayed(<<"Started playing">>, selected)
    /\ TopOfLoop(input_pane, output_pane, output_dir)
    /\ UNCHANGED <<focus, dvars, svars, pvars, lvars, impl, tmp_files>>

\* the focus tests of the dispatch: "key == ord('l') and focus == 'input'",
\* "key == ord('d') and focus == 'output'", and tests that any focus passes
any_focus(f) == TRUE
loop_applies(f) == f = "input"
delete_applies(f) == f = "output"

\* the keys that may fall through every branch of the dispatch
OtherKeys == {"l", "d", "x"}

\* a key that no branch of the dispatch takes
Ignored(key) ==
    /\ impl = "TUI" /\ mode = "Browsing"
    /\ key = "l" => ~loop_applies(focus)
    /\ key = "d" => ~delete_applies(focus)
    /\ TopOfLoop(input_pane, output_pane, output_dir)
    /\ fx' = [NoFx EXCEPT !.ignored = <<key>>]
    /\ UNCHANGED <<focus, log_pane, player_proc, procs, dvars, svars, pvars, lvars, impl, tmp_files>>

KeyOther == \E key \in OtherKeys : Ignored(key)

\* a selection step that is taken whatever the number of candidates
always_select(candidates) == TRUE
\* len(candidates) > 1
several_candidates(candidates) == Len(candidates) > 1

\* key == ord('l') and focus == 'input', up to the first modal or "continue"
KeyLoop ==
    /\ impl = "TUI" /\ mode = "Browsing" /\ loop_applies(focus)
    /\ IF input_pane.items = <<>>
       THEN /\ TopOfLoop(input_pane, output_pane, output_dir)
            /\ fx' = NoFx
            /\ UNCHANGED <<log_pane, dvars>>
       ELSE IF LoadFails(get_selected(input_pane))
       THEN \* SirenLooper(...) raises RuntimeError out of _main
            /\ mode' = "Crashed"
            /\ fx' = NoFx
            /\ UNCHANGED <<sess, input_dir, output_dir, input_pane, output_pane,
                           log_pane, dvars>>
       ELSE LET selected == get_selected(input_pane)
                x == SmoothedOf(selected.stem)
                S == AffinityOf(selected.stem)
                first == find_seamless_loop_points(x, S, DefaultMinLoop, DefaultPeakThreshold)
                r == retry_loop_detection(x, S, DefaultMinLoop, DefaultPeakThreshold,
                                          first, 0)
                candidates == IF first # <<>> THEN first ELSE r.cands
            IN  IF first = <<>> /\ ~r.result
                THEN /\ TopOfLoop(input_pane, output_pane, output_dir)
                     /\ NoLooper
                     /\ log_pane' = add_message(log_pane, 3)
                     /\ fx' = FxAll(<<"Finding loop points", "No loop points found, retrying",
                                     "No loop points found after retries">>,
                                   <<>>, <<>>, r.attempts, <<>>)
                ELSE /\ ssm_smooth' = x /\ ssm' = S
                     /\ orig' = [mld |-> DefaultMinLoop, th |-> DefaultPeakThreshold]
                     /\ min_loop_duration_sec' = IF first # <<>> THEN DefaultMinLoop ELSE r.mld
                     /\ peak_height_threshold' =
                            IF first # <<>> THEN DefaultPeakThreshold ELSE r.th
                     /\ loop_candidates' = candidates
                     /\ attempt' = IF first # <<>> THEN 0 ELSE r.attempts
                     /\ retry_result' = IF first # <<>> THEN "none" ELSE "true"
                     /\ dpc' = "done"
                     /\ attempt_log' = <<>>
                     /\ log_pane' = add_message(log_pane, IF first # <<>> THEN 1 ELSE 3)
                     /\ fx' = IF first # <<>>
                              THEN Fx(<<"Finding loop points">>, <<>>, <<>>)
                              ELSE FxAll(<<"Finding loop points",
                                           "No loop points found, retrying",
                                           "Found loop points after retries">>,
                                         <<>>, <<>>, r.attempts, <<>>)
                     /\ IF several_candidates(candidates)
                        THEN /\ mode' = "ModalSelect"
                             /\ sess' = Sess("loop", <<selected>>, candidates, 0, NoProc,
                                             <<>>, <<>>, TRUE)
                        ELSE /\ mode' = "ModalPrompt"
                             /\ sess' = Sess("loop", <<selected>>, candidates, 0, NoProc,
                                             <<candidates[1]>>, <<>>, TRUE)
                     /\ UNCHANGED <<input_dir, output_dir, input_pane, output_pane>>
    /\ UNCHANGED <<focus, player_proc, procs, svars, pvars, lvars, impl, tmp_files>>

\* a 'q' that leaves the event loop from inside the selection modal
SelectQuitExits ==
    /\ impl = "TUI" /\ mode = "ModalSelect"
    /\ mode' = "Exited"
    /\ fx' = NoFx
    /\ UNCHANGED <<focus, input_dir, output_dir, input_pane, output_pane, log_pane,
                   player_proc, procs, sess, dvars, svars, pvars, lvars, impl, tmp_files>>

\* SelectionModal.show: k == ord('q'); then "if sel_idx is None: continue"
SelectQuit ==
    /\ impl = "TUI" /\ mode = "ModalSelect"
    /\ TopOfLoop(input_pane, output_pane, output_dir)
    /\ NoLooper
    /\ fx' = NoFx
    /\ UNCHANGED <<focus, log_pane, player_proc, procs, svars, pvars, lvars, impl, tmp_files>>

\* SelectionModal.show: k in (KEY_UP, KEY_DOWN)
SelectUpDown ==
    /\ impl = "TUI" /\ mode = "ModalSelect"
    /\ \E key \in {KEY_UP, KEY_DOWN} :
        LET num == Len(sess.candidates)
        IN  sess' = [sess EXCEPT !.selected =
                        IF key = KEY_UP THEN (sess.selected - 1) % num
                        ELSE (sess.selected + 1) % num]
    /\ fx' = NoFx
    /\ UNCHANGED <<mode, focus, input_dir, output_dir, input_pane, output_pane, log_pane,
                   player_proc, procs, dvars, svars, pvars, lvars, impl, tmp_files>>

\* SelectionModal.show: k == ord('p'), the preview of the highlighted segment
SelectPlay ==
    /\ impl = "TUI" /\ mode = "ModalSelect"
    /\ IF sess.modal_player # NoProc
       THEN /\ procs' = terminate(procs, sess.modal_player)
            /\ sess' = [sess EXCEPT !.modal_player = NoProc]
            /\ fx' = NoFx
            /\ UNCHANGED tmp_files
       ELSE /\ Cardinality(procs) < MaxProcs
            /\ procs' = Popen(procs, "preview")
            /\ sess' = [sess EXCEPT !.modal_player = NewPid(procs)]
            /\ fx' = FxPlayed(<<>>, [tmp |-> sess.candidates[sess.selected + 1]])
            /\ tmp_files' = NamedTemporaryFile(tmp_files)
    /\ UNCHANGED <<mode, focus, input_dir, output_dir, input_pane, output_pane, log_pane,
                   player_proc, dvars, svars, pvars, lvars, impl>>

\* SelectionModal.show: k in (10, 13); then "chosen = candidates[sel_idx]" and
\* the prompt opens. modal_player goes out of scope with the modal
SelectEnter ==
    /\ impl = "TUI" /\ mode = "ModalSelect"
    /\ mode' = "ModalPrompt"
    /\ sess' = [sess EXCEPT !.chosen = <<sess.candidates[sess.selected + 1]>>,
                            !.modal_player = NoProc]
    /\ fx' = NoFx
    /\ UNCHANGED <<focus, input_dir, output_dir, input_pane, output_pane, log_pane,
                   player_proc, procs, dvars, svars, pvars, lvars, impl, tmp_files>>

\* PromptModal.show: a digit or '.', one of chars, typed while the text has
\* fewer than bound characters
PromptTypes(bound, chars) ==
    /\ impl = "TUI" /\ mode = "ModalPrompt"
    /\ Len(sess.inp) < bound
    /\ \E ch \in chars : sess' = [sess EXCEPT !.inp = Append(sess.inp, ch)]
    /\ fx' = NoFx
    /\ UNCHANGED <<mode, focus, input_dir, output_dir, input_pane, output_pane, log_pane,
                   player_proc, procs, dvars, svars, pvars, lvars, impl, tmp_files>>

PromptType == PromptTypes(MaxInput, PromptChars)

\* PromptModal.show: k in (KEY_BACKSPACE, 127)
PromptBackspace ==
    /\ impl = "TUI" /\ mode = "ModalPrompt"
    /\ sess' = IF sess.inp # <<>>
               THEN [sess EXCEPT !.inp = SubSeq(sess.inp, 1, Len(sess.inp) - 1)]
               ELSE sess
    /\ fx' = NoFx
    /\ UNCHANGED <<mode, focus, input_dir, output_dir, input_pane, output_pane, log_pane,
                   player_proc, procs, dvars, svars, pvars, lvars, impl, tmp_files>>

\* PromptModal.show: k == ord('q'); then "if prompt is None"
PromptQuit ==
    /\ impl = "TUI" /\ mode = "ModalPrompt"
    /\ log_pane' = add_message(log_pane, 1)
    /\ fx' = Fx(<<"Cancelled target input">>, <<>>, <<>>)
    /\ TopOfLoop(input_pane, output_pane, output_dir)
    /\ NoLooper
    /\ UNCHANGED <<focus, player_proc, procs, svars, pvars, lvars, impl, tmp_files>>

\* a choice of the candidate at the end of the list
get_last_loop(cands) == IF cands = <<>> THEN <<>> ELSE <<cands[Len(cands)]>>

\* SirenLooper.get_best_loop: None (the empty sequence) or the first candidate
get_best_loop(cands) == IF cands = <<>> THEN <<>> ELSE <<cands[1]>>

\* SirenLooper.process_and_save(target, output_file): the buffer comes from
\* get_best_loop(), the first of the looper's candidates
process_and_save(cands, t, name) ==
    [name |-> name, audio |-> LoopedAudio(get_best_loop(cands)[1], t)]

\* PromptModal.show: k in (10, 13); then lines 147-160
PromptEnter ==
    /\ impl = "TUI" /\ mode = "ModalPrompt"
    /\ LET chosen == sess.chosen[1]
           selected == sess.file[1]
       IN  IF ~IsFloat(sess.inp)
           THEN /\ log_pane' = add_message(log_pane, 1)
                /\ fx' = Fx(<<"Invalid input. Try again.">>, <<>>, <<chosen>>)
                /\ TopOfLoop(input_pane, output_pane, output_dir)
                /\ NoLooper
           ELSE LET target == ParseFloat(sess.inp)
                    output_name == [stem |-> selected.stem,
                                    rank |-> index(sess.candidates, chosen),
                                    secs |-> int(target)]
                IN  IF TooShort(target, chosen)
                    THEN /\ log_pane' = add_message(log_pane, 1)
                         /\ fx' = Fx(<<"Target too short. Try again.">>, <<>>, <<chosen>>)
                         /\ TopOfLoop(input_pane, output_pane, output_dir)
                         /\ NoLooper
                    ELSE IF duration_samples(loop_candidates[1]) = 0
                    THEN \* "target // 0.0" raises ZeroDivisionError out of _main
                         /\ mode' = "Crashed"
                         /\ log_pane' = add_message(log_pane, 1)
                         /\ fx' = Fx(<<"Processing and saving">>, <<>>, <<chosen>>)
                         /\ UNCHANGED <<sess, input_dir, output_dir, input_pane,
                                        output_pane, dvars>>
                    ELSE LET result == process_and_save(loop_candidates, target, output_name)
                         IN  /\ Len(WriteFile(output_dir, result)) <= MaxOutputs
                             /\ log_pane' = add_message(log_pane, 2)
                             /\ fx' = Fx(<<"Processing and saving", "Saved looped file">>,
                                         <<result>>, <<chosen>>)
                             /\ TopOfLoop(input_pane, output_pane,
                                          WriteFile(output_dir, result))
                             /\ NoLooper
    /\ UNCHANGED <<focus, player_proc, procs, svars, pvars, lvars, impl, tmp_files>>

\* key == ord('d') and focus == 'output', up to the modal or "continue"
KeyDelete ==
    /\ impl = "TUI" /\ mode = "Browsing" /\ delete_applies(focus)
    /\ fx' = NoFx
    /\ IF output_pane.items = <<>>
       THEN TopOfLoop(input_pane, output_pane, output_dir)
       ELSE /\ mode' = "ModalConfirm"
            /\ sess' = Sess("delete", <<get_selected(output_pane)>>, <<>>, 0, NoProc,
                            <<>>, <<>>, TRUE)
            /\ UNCHANGED <<input_dir, output_dir, input_pane, output_pane>>
    /\ UNCHANGED <<focus, log_pane, player_proc, procs, dvars, svars, pvars, lvars, impl, tmp_files>>

\* ConfirmModal.show: k in (9, KEY_LEFT, KEY_RIGHT)
ConfirmToggle ==
    /\ impl = "TUI" /\ mode = "ModalConfirm"
    /\ sess' = [sess EXCEPT !.confirm = ~sess.confirm]
    /\ fx' = NoFx
    /\ UNCHANGED <<mode, focus, input_dir, output_dir, input_pane, output_pane, log_pane,
                   player_proc, procs, dvars, svars, pvars, lvars, impl, tmp_files>>

\* ConfirmModal.show: k == ord('q'); then "if not confirm: continue"
ConfirmQuit ==
    /\ impl = "TUI" /\ mode = "ModalConfirm"
    /\ TopOfLoop(input_pane, output_pane, output_dir)
    /\ fx' = NoFx
    /\ UNCHANGED <<focus, log_pane, player_proc, procs, dvars, svars, pvars, lvars, impl, tmp_files>>

\* ConfirmModal.show: k in (10, 13); then lines 169-173
ConfirmEnter ==
    /\ impl = "TUI" /\ mode = "ModalConfirm"
    /\ LET selected == sess.file[1]
       IN  IF ~sess.confirm
           THEN /\ TopOfLoop(input_pane, output_pane, output_dir)
                /\ fx' = NoFx
                /\ UNCHANGED log_pane
           ELSE IF FileNotFoundError(output_dir, selected)
           THEN \* unlink raises FileNotFoundError out of _main
                /\ mode' = "Crashed"
                /\ fx' = NoFx
                /\ UNCHANGED <<sess, input_dir, output_dir, input_pane, output_pane,
                               log_pane>>
           ELSE /\ TopOfLoop(input_pane, output_pane, unlink(output_dir, selected))
                /\ log_pane' = add_message(log_pane, 1)
                /\ fx' = Fx(<<"Deleted">>, <<>>, <<>>)
    /\ UNCHANGED <<focus, player_proc, procs, dvars, svars, pvars, lvars, impl, tmp_files>>

----
\* AudioLooperApp.run: the controller written inline in tui_main, observed at
\* each getch. Its panes are the locals files_in/idx_in/scroll_in and
\* files_out/idx_out/scroll_out, its log is log_messages/scroll_pos.

\* len(inp_str) < 10
InputCap == 10

\* log_messages.append without "scroll_pos = 0"
append_only(lp, n) == [lp EXCEPT !.count = Min2(lp.count + n, MaxLog)]

\* files[idx] raises IndexError
IndexError(p) == p.selected >= Len(p.items)

\* the top of "while True": lines 190-233. The lists are read again and each
\* scroll follows its index; the indices are left as they are
RunTopOfLoop(ip, op, outdir) ==
    /\ mode' = "Browsing"
    /\ output_dir' = outdir
    /\ input_pane' = adjust_scroll([ip EXCEPT !.items = get_sound_input_files(input_dir)],
                                   PaneRows)
    /\ output_pane' = adjust_scroll([op EXCEPT !.items = OutputListing(outdir)], PaneRows)
    /\ UNCHANGED input_dir

\* an exception leaves tui_main
RunRaise ==
    /\ mode' = "Crashed"
    /\ fx' = NoFx
    /\ UNCHANGED <<sess, input_dir, output_dir, input_pane, output_pane, log_pane, dvars>>

\* key == ord('q'): break
RunKeyQuit ==
    /\ impl = "run" /\ mode = "Browsing"
    /\ mode' = "Exited"
    /\ fx' = NoFx
    /\ UNCHANGED <<focus, input_dir, output_dir, input_pane, output_pane, log_pane,
                   player_proc, procs, sess, dvars, svars, pvars, lvars, impl, tmp_files>>

\* key == 9
RunKeyTab ==
    /\ impl = "run" /\ mode = "Browsing"
    /\ focus' = IF focus = "input" THEN "output"
                ELSE IF focus = "output" THEN "log" ELSE "input"
    /\ RunTopOfLoop(input_pane, output_pane, output_dir)
    /\ fx' = NoFx
    /\ UNCHANGED <<log_pane, player_proc, procs, sess, dvars, svars, pvars, lvars, impl, tmp_files>>

\* key in (KEY_UP, KEY_DOWN)
RunKeyUpDown ==
    /\ impl = "run" /\ mode = "Browsing"
    /\ \E key \in {KEY_UP, KEY_DOWN} :
        LET step(p) == IF p.items = <<>> THEN p
                       ELSE [p EXCEPT !.selected = IF key = KEY_UP
                                                   THEN (p.selected - 1) % Len(p.items)
                                                   ELSE (p.selected + 1) % Len(p.items)]
        IN  IF focus = "log"
            THEN /\ log_pane' = log_handle_key(log_pane, key)
                 /\ RunTopOfLoop(input_pane, output_pane, output_dir)
                 /\ fx' = NoFx
                 /\ UNCHANGED <<player_proc, procs>>
            ELSE /\ IF player_proc # NoProc
                    THEN /\ procs' = terminate(procs, player_proc)
                         /\ player_proc' = NoProc
                         /\ fx' = [NoFx EXCEPT !.stopped = <<player_proc>>]
                    ELSE /\ fx' = NoFx
                         /\ UNCHANGED <<player_proc, procs>>
                 /\ IF focus = "input"
                    THEN RunTopOfLoop(step(input_pane), output_pane, output_dir)
                    ELSE RunTopOfLoop(input_pane, step(output_pane), output_dir)
                 /\ UNCHANGED log_pane
    /\ UNCHANGED <<focus, sess, dvars, svars, pvars, lvars, impl, tmp_files>>

\* key == ord('p')
RunKeyPlay ==
    /\ impl = "run" /\ mode = "Browsing"
    /\ LET p == IF focus = "input" THEN input_pane ELSE output_pane
       IN  IF IndexError(p)
           THEN RunRaise /\ UNCHANGED <<player_proc, procs>>
           ELSE /\ IF player_proc # NoProc
                   THEN /\ procs' = terminate(procs, player_proc)
                        /\ player_proc' = NoProc
                        /\ log_pane' = append_only(log_pane, 1)
                        /\ fx' = Fx(<<"Stopped playing">>, <<>>, <<>>)
                   ELSE /\ Cardinality(procs) < MaxProcs
                        /\ player_proc' = NewPid(procs)
                        /\ procs' = Popen(procs, "main")
                        /\ log_pane' = add_message(log_pane, 1)
                        /\ fx' = FxPlayed(<<"Started playing">>, p.items[p.selected + 1])
                /\ RunTopOfLoop(input_pane, output_pane, output_dir)
                /\ UNCHANGED <<sess, dvars>>
    /\ UNCHANGED <<focus, svars, pvars, lvars, impl, tmp_files>>

\* a key that no branch of the dispatch takes
RunIgnored(key) ==
    /\ impl = "run" /\ mode = "Browsing"
    /\ key = "l" => ~loop_applies(focus)
    /\ key = "d" => ~(delete_applies(focus) /\ output_pane.items # <<>>)
    /\ RunTopOfLoop(input_pane, output_pane, output_dir)
    /\ fx' = [NoFx EXCEPT !.ignored = <<key>>]
    /\ UNCHANGED <<focus, log_pane, player_proc, procs, sess, dvars, svars, pvars, lvars, impl, tmp_files>>

RunKeyOther == \E key \in OtherKeys : RunIgnored(key)

\* key == ord('l') and focus == 'input': lines 285-323, up to the first modal or
\* "continue"
RunKeyLoop ==
    /\ impl = "run" /\ mode = "Browsing" /\ loop_applies(focus)
    /\ IF IndexError(input_pane) \/ LoadFails(input_pane.items[input_pane.selected + 1])
       THEN RunRaise
       ELSE LET sel_file == input_pane.items[input_pane.selected + 1]
                x == SmoothedOf(sel_file.stem)
                S == AffinityOf(sel_file.stem)
                first == find_seamless_loop_points(x, S, DefaultMinLoop, DefaultPeakThreshold)
                r == retry_loop_detection(x, S, DefaultMinLoop, DefaultPeakThreshold,
                                          first, 0)
                candidates == IF first # <<>> THEN first ELSE r.cands
            IN  IF first = <<>> /\ ~r.result
                THEN /\ RunTopOfLoop(input_pane, output_pane, output_dir)
                     /\ NoLooper
                     /\ log_pane' = add_message(log_pane, 2)
                     /\ fx' = FxAll(<<"No loop points found, retrying",
                                      "No loop points found after retries">>,
                                    <<>>, <<>>, r.attempts, <<"Finding loop points">>)
                     /\ UNCHANGED sess
                ELSE /\ ssm_smooth' = x /\ ssm' = S
                     /\ orig' = [mld |-> DefaultMinLoop, th |-> DefaultPeakThreshold]
                     /\ min_loop_duration_sec' = IF first # <<>> THEN DefaultMinLoop ELSE r.mld
                     /\ peak_height_threshold' =
                            IF first # <<>> THEN DefaultPeakThreshold ELSE r.th
                     /\ loop_candidates' = candidates
                     /\ attempt' = IF first # <<>> THEN 0 ELSE r.attempts
                     /\ retry_result' = IF first # <<>> THEN "none" ELSE "true"
                     /\ dpc' = "done"
                     /\ attempt_log' = <<>>
                     /\ log_pane' = IF first # <<>> THEN log_pane
                                    ELSE add_message(log_pane, 2)
                     /\ fx' = IF first # <<>>
                              THEN FxAll(<<>>, <<>>, <<>>, 0, <<"Finding loop points">>)
                              ELSE FxAll(<<"No loop points found, retrying",
                                           "Found loop points after retries">>,
                                         <<>>, <<>>, r.attempts, <<"Finding loop points">>)
                     /\ IF Len(candidates) = 1
                        THEN /\ mode' = "ModalPrompt"
                             /\ sess' = Sess("loop", <<sel_file>>, candidates, sess.selected,
                                             NoProc, <<candidates[1]>>, <<>>, TRUE)
                        ELSE /\ mode' = "ModalSelect"
                             /\ sess' = Sess("loop", <<sel_file>>, candidates, 0, NoProc,
                                             <<>>, <<>>, TRUE)
                     /\ UNCHANGED <<input_dir, output_dir, input_pane, output_pane>>
    /\ UNCHANGED <<focus, player_proc, procs, svars, pvars, lvars, impl, tmp_files>>

\* the selection modal, lines 324-355: mk == ord('q'), then "continue"
RunSelectQuit ==
    /\ impl = "run" /\ mode = "ModalSelect"
    /\ RunTopOfLoop(input_pane, output_pane, output_dir)
    /\ sess' = RunLocals(sess.selected)
    /\ NoLooper
    /\ fx' = NoFx
    /\ UNCHANGED <<focus, log_pane, player_proc, procs, svars, pvars, lvars, impl, tmp_files>>

\* the selection modal: mk in (KEY_UP, KEY_DOWN)
RunSelectUpDown ==
    /\ impl = "run" /\ mode = "ModalSelect"
    /\ \E key \in {KEY_UP, KEY_DOWN} :
        LET num_c == Len(sess.candidates)
        IN  sess' = [sess EXCEPT !.selected =
                        IF key = KEY_UP THEN (sess.selected - 1) % num_c
                        ELSE (sess.selected + 1) % num_c]
    /\ fx' = NoFx
    /\ UNCHANGED <<mode, focus, input_dir, output_dir, input_pane, output_pane, log_pane,
                   player_proc, procs, dvars, svars, pvars, lvars, impl, tmp_files>>

\* the selection modal: mk == ord('p'), the preview
RunSelectPlay ==
    /\ impl = "run" /\ mode = "ModalSelect"
    /\ IF sess.modal_player # NoProc
       THEN /\ procs' = terminate(procs, sess.modal_player)
            /\ sess' = [sess EXCEPT !.modal_player = NoProc]
            /\ fx' = NoFx
            /\ UNCHANGED tmp_files
       ELSE /\ Cardinality(procs) < MaxProcs
            /\ procs' = Popen(procs, "preview")
            /\ sess' = [sess EXCEPT !.modal_player = NewPid(procs)]
            /\ fx' = FxPlayed(<<>>, [tmp |-> sess.candidates[sess.selected + 1]])
            /\ tmp_files' = NamedTemporaryFile(tmp_files)
    /\ UNCHANGED <<mode, focus, input_dir, output_dir, input_pane, output_pane, log_pane,
                   player_proc, dvars, svars, pvars, lvars, impl>>

\* the selection modal: mk in (10, 13), "chosen = candidates[sel_idx]"; the
\* prompt opens
RunSelectEnter ==
    /\ impl = "run" /\ mode = "ModalSelect"
    /\ mode' = "ModalPrompt"
    /\ sess' = [sess EXCEPT !.chosen = <<sess.candidates[sess.selected + 1]>>,
                            !.modal_player = NoProc]
    /\ fx' = NoFx
    /\ UNCHANGED <<focus, input_dir, output_dir, input_pane, output_pane, log_pane,
                   player_proc, procs, dvars, svars, pvars, lvars, impl, tmp_files>>

\* the prompt, lines 370-384: a digit or '.', one of chars, typed while the
\* text has fewer than bound characters
RunPromptTypes(bound, chars) ==
    /\ impl = "run" /\ mode = "ModalPrompt"
    /\ Len(sess.inp) < bound
    /\ \E ch \in chars :
        sess' = IF Len(sess.inp) < InputCap
                THEN [sess EXCEPT !.inp = Append(sess.inp, ch)] ELSE sess
    /\ fx' = NoFx
    /\ UNCHANGED <<mode, focus, input_dir, output_dir, input_pane, output_pane, log_pane,
                   player_proc, procs, dvars, svars, pvars, lvars, impl, tmp_files>>

RunPromptType == RunPromptTypes(MaxInput, PromptChars)

\* the prompt: mk in (KEY_BACKSPACE, 127)
RunPromptBackspace ==
    /\ impl = "run" /\ mode = "ModalPrompt"
    /\ sess' = IF sess.inp # <<>>
               THEN [sess EXCEPT !.inp = SubSeq(sess.inp, 1, Len(sess.inp) - 1)]
               ELSE sess
    /\ fx' = NoFx
    /\ UNCHANGED <<mode, focus, input_dir, output_dir, input_pane, output_pane, log_pane,
                   player_proc, procs, dvars, svars, pvars, lvars, impl, tmp_files>>

\* the prompt: mk == ord('q'), then lines 389-394
RunPromptQuit ==
    /\ impl = "run" /\ mode = "ModalPrompt"
    /\ log_pane' = add_message(log_pane, 1)
    /\ fx' = Fx(<<"Cancelled target input">>, <<>>, <<>>)
    /\ RunTopOfLoop(input_pane, output_pane, output_dir)
    /\ sess' = RunLocals(sess.selected)
    /\ NoLooper
    /\ UNCHANGED <<focus, player_proc, procs, svars, pvars, lvars, impl, tmp_files>>

\* the prompt: mk in (10, 13), then lines 395-411
RunPromptEnter ==
    /\ impl = "run" /\ mode = "ModalPrompt"
    /\ LET chosen == sess.chosen[1]
           sel_file == sess.file[1]
           sel_idx == sess.selected
       IN  IF ~IsFloat(sess.inp)
           THEN /\ fx' = FxAll(<<>>, <<>>, <<chosen>>, 0, <<"Invalid input. Try again.">>)
                /\ RunTopOfLoop(input_pane, output_pane, output_dir)
                /\ sess' = RunLocals(sel_idx)
                /\ NoLooper
                /\ UNCHANGED log_pane
           ELSE IF TooShort(ParseFloat(sess.inp), chosen)
           THEN /\ fx' = FxAll(<<>>, <<>>, <<chosen>>, 0, <<"Target too short. Try again.">>)
                /\ RunTopOfLoop(input_pane, output_pane, output_dir)
                /\ sess' = RunLocals(sel_idx)
                /\ NoLooper
                /\ UNCHANGED log_pane
           ELSE IF sel_idx = Unbound \/ duration_samples(loop_candidates[1]) = 0
           THEN \* "sel_idx+1" raises UnboundLocalError, "target // 0.0" raises
                \* ZeroDivisionError, out of tui_main
                /\ mode' = "Crashed"
                /\ fx' = FxAll(<<>>, <<>>, <<chosen>>, 0, <<"Processing and saving">>)
                /\ UNCHANGED <<sess, input_dir, output_dir, input_pane, output_pane,
                               log_pane, dvars>>
           ELSE LET target == ParseFloat(sess.inp)
                    output_name == [stem |-> sel_file.stem, rank |-> sel_idx + 1,
                                    secs |-> int(target)]
                    result == process_and_save(loop_candidates, target, output_name)
                IN  /\ Len(WriteFile(output_dir, result)) <= MaxOutputs
                    /\ log_pane' = add_message(log_pane, 1)
                    /\ fx' = FxAll(<<"Saved looped file">>, <<result>>, <<chosen>>, 0,
                                   <<"Processing and saving">>)
                    /\ RunTopOfLoop(input_pane, output_pane, WriteFile(output_dir, result))
                    /\ sess' = RunLocals(sel_idx)
                    /\ NoLooper
    /\ UNCHANGED <<focus, player_proc, procs, svars, pvars, lvars, impl, tmp_files>>

\* key == ord('d') and focus == 'output' and files_out: lines 412-424
RunKeyDelete ==
    /\ impl = "run" /\ mode = "Browsing" /\ delete_applies(focus)
    /\ output_pane.items # <<>>
    /\ IF IndexError(output_pane)
       THEN RunRaise
       ELSE /\ mode' = "ModalConfirm"
            /\ sess' = Sess("delete", <<output_pane.items[output_pane.selected + 1]>>,
                            <<>>, sess.selected, NoProc, <<>>, <<>>, TRUE)
            /\ fx' = NoFx
            /\ UNCHANGED <<input_dir, output_dir, input_pane, output_pane, log_pane, dvars>>
    /\ UNCHANGED <<focus, player_proc, procs, svars, pvars, lvars, impl, tmp_files>>

\* the confirmation modal, lines 425-440: mk == 9 or mk in (KEY_LEFT, KEY_RIGHT)
RunConfirmToggle ==
    /\ impl = "run" /\ mode = "ModalConfirm"
    /\ sess' = [sess EXCEPT !.confirm = ~sess.confirm]
    /\ fx' = NoFx
    /\ UNCHANGED <<mode, focus, input_dir, output_dir, input_pane, output_pane, log_pane,
                   player_proc, procs, dvars, svars, pvars, lvars, impl, tmp_files>>

\* the confirmation modal: mk == ord('q'), then "if aborted or not sel_yes"
RunConfirmQuit ==
    /\ impl = "run" /\ mode = "ModalConfirm"
    /\ RunTopOfLoop(input_pane, output_pane, output_dir)
    /\ sess' = RunLocals(sess.selected)
    /\ fx' = NoFx
    /\ UNCHANGED <<focus, log_pane, player_proc, procs, dvars, svars, pvars, lvars, impl, tmp_files>>

\* the confirmation modal: mk in (10, 13), then lines 444-452. files_out is
\* still the listing made before the deletion when idx_out is compared with it
RunConfirmEnter ==
    /\ impl = "run" /\ mode = "ModalConfirm"
    /\ LET name == sess.file[1]
           idx_out == IF output_pane.selected >= Len(output_pane.items)
                      THEN Max2(0, Len(output_pane.items) - 1)
                      ELSE output_pane.selected
       IN  IF ~sess.confirm
           THEN /\ RunTopOfLoop(input_pane, output_pane, output_dir)
                /\ sess' = RunLocals(sess.selected)
                /\ fx' = NoFx
                /\ UNCHANGED log_pane
           ELSE IF FileNotFoundError(output_dir, name)
           THEN \* unlink raises FileNotFoundError out of tui_main
                /\ mode' = "Crashed"
                /\ fx' = NoFx
                /\ UNCHANGED <<sess, input_dir, output_dir, input_pane, output_pane,
                               log_pane>>
           ELSE /\ RunTopOfLoop(input_pane, [output_pane EXCEPT !.selected = idx_out],
                                unlink(output_dir, name))
                /\ sess' = RunLocals(sess.selected)
                /\ log_pane' = add_message(log_pane, 1)
                /\ fx' = Fx(<<"Deleted">>, <<>>, <<>>)
    /\ UNCHANGED <<focus, player_proc, procs, dvars, svars, pvars, lvars, impl, tmp_files>>

Next ==
    \/ KeyQuit \/ KeyTab \/ KeyUpDown \/ KeyPlay \/ KeyOther
    \/ KeyLoop
    \/ SelectQuit \/ SelectUpDown \/ SelectPlay \/ SelectEnter
    \/ PromptType \/ PromptBackspace \/ PromptQuit \/ PromptEnter
    \/ KeyDelete
    \/ ConfirmToggle \/ ConfirmQuit \/ ConfirmEnter
    \/ RunKeyQuit \/ RunKeyTab \/ RunKeyUpDown \/ RunKeyPlay \/ RunKeyOther
    \/ RunKeyLoop
    \/ RunSelectQuit \/ RunSelectUpDown \/ RunSelectPlay \/ RunSelectEnter
    \/ RunPromptType \/ RunPromptBackspace \/ RunPromptQuit \/ RunPromptEnter
    \/ RunKeyDelete
    \/ RunConfirmToggle \/ RunConfirmQuit \/ RunConfirmEnter

Spec == Init /\ [][Next]_vars

----
\* Claims about the controller

\* C1: in the interactive flow, whenever a file is saved after the user
\* confirmed a highlighted candidate and submitted a valid target duration, the
\* samples handed to the persistence sink are repetitions of the segment
\* samples[start : end] of that highlighted candidate, not of another member
\* of the CandidateSet.
C1_SavedSegmentIsChosen ==
    fx.wrote # <<>> =>
        /\ fx.wrote[1].audio.start = fx.chosen[1].start
        /\ fx.wrote[1].audio.end = fx.chosen[1].end

\* C10: in every reachable state of the controller, ModalSelect with a preview
\* included, at most one playback process has been started and not yet
\* terminated by the controller.
C10_AtMostOneLiveProcess == Cardinality(procs) <= 1

\* the pane the play key reads, and whether it has a selected item
PlayPane == IF focus = "input" THEN input_pane ELSE output_pane
HasSelection(p) == p.items # <<>> /\ p.selected < Len(p.items)

\* C11: in Browsing, with a list pane focused and an item selected, the
\* play/stop key toggles the tracked handle. With an active handle: that
\* process is terminated, the handle is cleared, a stop event is logged and no
\* process is spawned. Otherwise: exactly one process is spawned, for the
\* selected item, it becomes the tracked handle, and a start event is logged.
C11_PlayKeyToggles ==
    [][ ((KeyPlay \/ RunKeyPlay) /\ focus \in {"input", "output"} /\ HasSelection(PlayPane))
        => IF player_proc # NoProc
           THEN /\ procs' = { q \in procs : q.pid # player_proc }
                /\ player_proc' = NoProc
                /\ fx'.log = <<"Stopped playing">>
                /\ fx'.played = <<>>
           ELSE /\ \E q \in procs' : /\ q \notin procs
                                    /\ procs' = procs \cup {q}
                                    /\ player_proc' = q.pid
                /\ Cardinality(procs') = Cardinality(procs) + 1
                /\ fx'.played = <<PlayPane.items[PlayPane.selected + 1]>>
                /\ fx'.log = <<"Started playing">> ]_vars

\* a playback was started and then stopped with the play key, under either
\* controller
C11_Witness ==
    /\ mode = "Browsing" /\ focus \in {"input", "output"}
    /\ fx.log = <<"Stopped playing">>
    /\ player_proc = NoProc
    /\ HasSelection(PlayPane)

\* the files on storage, and the abort key of each modal
Storage == <<input_dir, output_dir, tmp_files>>
InModal == mode \in {"ModalSelect", "ModalPrompt", "ModalConfirm"}
AbortKey ==
    \/ SelectQuit \/ PromptQuit \/ ConfirmQuit
    \/ RunSelectQuit \/ RunPromptQuit \/ RunConfirmQuit

\* C12: in each of the three modals, no key handled inside the modal changes
\* the set of files on storage, and the abort key returns to Browsing with the
\* files exactly as they were when the modal opened: nothing written, nothing
\* deleted.
C12_AbortLeavesStorage ==
    [][ (InModal /\ (mode' = mode \/ AbortKey))
        => /\ AbortKey => mode' = "Browsing"
           /\ Storage' = Storage ]_vars

\* the keys of the confirmation modal
ConfirmKeyToggle == ConfirmToggle \/ RunConfirmToggle
ConfirmKeyEnter == ConfirmEnter \/ RunConfirmEnter
ConfirmKeyQuit == ConfirmQuit \/ RunConfirmQuit
HasFile(dir, name) == \E i \in 1..Len(dir) : dir[i].name = name
InListing(p, name) == \E i \in 1..Len(p.items) : p.items[i] = name

\* C13: ModalConfirm opens with the choice yes, every toggle key flips it, and
\* the selected output file is deleted, with "Deleted" logged, exactly when the
\* modal is left through the confirm key with the choice yes. Then the file is
\* absent from the next output listing and the output folder has one file
\* fewer; left with choice no or through the abort key, the folder is unchanged.
C13_DeleteIffConfirmedYes ==
    [][ /\ (mode # "ModalConfirm" /\ mode' = "ModalConfirm") => sess'.confirm = TRUE
        /\ ConfirmKeyToggle => /\ sess'.confirm = ~sess.confirm
                               /\ mode' = "ModalConfirm"
                               /\ output_dir' = output_dir
        /\ (mode = "ModalConfirm" /\ (ConfirmKeyEnter \/ ConfirmKeyQuit)) =>
              IF ConfirmKeyEnter /\ sess.confirm
              THEN /\ HasFile(output_dir, sess.file[1])
                   /\ ~HasFile(output_dir', sess.file[1])
                   /\ ~InListing(output_pane', sess.file[1])
                   /\ Len(output_dir') = Len(output_dir) - 1
                   /\ fx'.log = <<"Deleted">>
                   /\ mode' = "Browsing"
              ELSE /\ output_dir' = output_dir
                   /\ fx'.log = <<>>
                   /\ mode' = "Browsing" ]_vars

\* a file was deleted through the confirmation modal
C13_Witness ==
    /\ mode = "Browsing" /\ fx.log = <<"Deleted">>
    /\ Len(output_dir) < Len(output_pane.items) + 1
    /\ focus = "output"

\* the text submitted in the duration step is rejected: float() raises, or the
\* number is below twice the chosen candidate's duration
Rejected(inp, chosen) == ~IsFloat(inp) \/ TooShort(ParseFloat(inp), chosen)
ErrorEntries == { <<"Invalid input. Try again.">>, <<"Target too short. Try again.">> }

\* C14: when the text submitted in the duration step is not a number or is a
\* number below twice the chosen candidate's duration, the step appends an
\* error entry to the log, writes no file, and returns to Browsing.
C14_RejectedDurationLogged ==
    [][ ((PromptEnter \/ RunPromptEnter) /\ Rejected(sess.inp, sess.chosen[1]))
        => /\ fx'.log \in ErrorEntries
           /\ fx'.wrote = <<>>
           /\ output_dir' = output_dir
           /\ mode' = "Browsing" ]_vars

\* the loop key, under either controller
LoopKey == KeyLoop \/ RunKeyLoop

\* C15: no error arising while the loop key is handled terminates the
\* controller; when loading the selected input file fails, the failure is
\* reported in the log pane and the controller stays in Browsing.
C15_LoopKeyNeverTerminates ==
    [][ LoopKey
        => /\ mode' # "Crashed"
           /\ (HasSelection(input_pane) /\ LoadFails(input_pane.items[input_pane.selected + 1]))
                  => (mode' = "Browsing" /\ fx'.log # <<>>) ]_vars

\* the parameters of the looper after k relaxations of the defaults, and the
\* input files on which the initial attempt and every relaxed attempt are empty
RelaxedDefaults(k) ==
    [mld |-> Rat(DefaultMinLoop.n, DefaultMinLoop.d * Pow(2, k)),
     th  |-> Rat(DefaultPeakThreshold.n * Pow(4, k), DefaultPeakThreshold.d * Pow(5, k))]
NeverFinds(f) ==
    \A k \in 0..3 :
        find_seamless_loop_points(SmoothedOf(f.stem), AffinityOf(f.stem),
                                  RelaxedDefaults(k).mld, RelaxedDefaults(k).th) = <<>>

\* C16: when the loop key is pressed on an input file for which the initial
\* attempt and every relaxed attempt yield no candidate, exactly 3 retry
\* attempts are logged, the last message logged is the failure message, and the
\* controller is in Browsing again with focus, both pane selections, the
\* playback handle and the output directory unchanged, no modal in between.
C16_ExhaustedRetries ==
    [][ ( /\ LoopKey /\ HasSelection(input_pane)
          /\ ~LoadFails(input_pane.items[input_pane.selected + 1])
          /\ NeverFinds(input_pane.items[input_pane.selected + 1]) )
        => /\ fx'.retried = 3
           /\ fx'.log # <<>>
           /\ fx'.log[Len(fx'.log)] = "No loop points found after retries"
           /\ mode' = "Browsing"
           /\ focus' = focus
           /\ input_pane'.selected = input_pane.selected
           /\ output_pane'.selected = output_pane.selected
           /\ player_proc' = player_proc
           /\ procs' = procs
           /\ output_dir' = output_dir ]_vars

\* the retries were exhausted on the selected input file
C16_Witness ==
    /\ mode = "Browsing" /\ fx.retried = 3
    /\ fx.log # <<>> /\ fx.log[Len(fx.log)] = "No loop points found after retries"
    /\ HasSelection(input_pane)
    /\ NeverFinds(input_pane.items[input_pane.selected + 1])

\* the CandidateSet discovery yields on an input file: the result of the first
\* non-empty attempt among the defaults and the three relaxations
RECURSIVE DiscoveredFrom(_, _)
DiscoveredFrom(f, k) ==
    LET cs == find_seamless_loop_points(SmoothedOf(f.stem), AffinityOf(f.stem),
                                        RelaxedDefaults(k).mld, RelaxedDefaults(k).th)
    IN  IF cs # <<>> \/ k = 3 THEN cs ELSE DiscoveredFrom(f, k + 1)

\* C17: when discovery, with or without retries, yields a non-empty
\* CandidateSet on the loop key, ModalSelect opens if and only if the set has
\* more than one member, on that set; with exactly one member the controller
\* is in the duration step with that member as the chosen candidate.
C17_SelectIffSeveral ==
    [][ ( /\ LoopKey /\ HasSelection(input_pane)
          /\ ~LoadFails(input_pane.items[input_pane.selected + 1])
          /\ ~NeverFinds(input_pane.items[input_pane.selected + 1]) )
        => LET cs == DiscoveredFrom(input_pane.items[input_pane.selected + 1], 0)
           IN  /\ mode' = "ModalSelect" <=> Len(cs) > 1
               /\ mode' = "ModalSelect" => (sess'.candidates = cs /\ sess'.chosen = <<>>)
               /\ Len(cs) = 1 => (mode' = "ModalPrompt" /\ sess'.chosen = <<cs[1]>>) ]_vars

\* the duration step was entered directly, with the only candidate found
C17_Witness ==
    /\ mode = "ModalPrompt" /\ Len(sess.candidates) = 1
    /\ sess.chosen = <<sess.candidates[1]>>
    /\ fx.retried > 0

\* the loop key and the delete key, whichever branch of the dispatch they reach
LoopPressed == LoopKey \/ Ignored("l") \/ RunIgnored("l")
DeletePressed == KeyDelete \/ RunKeyDelete \/ Ignored("d") \/ RunIgnored("d")
Selections == <<input_pane.selected, output_pane.selected>>

\* C18: pressed in Browsing while the output pane or the log pane has focus,
\* the loop key runs no discovery, opens no modal, writes no file and leaves
\* focus, both selections and the playback handle as they were.
C18_LoopKeyNeedsInputFocus ==
    [][ (LoopPressed /\ mode = "Browsing" /\ focus # "input")
        => /\ mode' = "Browsing"
           /\ fx'.retried = 0 /\ fx'.log = <<>> /\ fx'.drawn = <<>> /\ fx'.wrote = <<>>
           /\ loop_candidates' = loop_candidates /\ attempt' = attempt
           /\ Storage' = Storage
           /\ focus' = focus
           /\ Selections' = Selections
           /\ player_proc' = player_proc /\ procs' = procs ]_vars

\* the loop key was read with a file selected in the input pane and the focus
\* on another pane
C18_Witness ==
    /\ mode = "Browsing" /\ fx.ignored = <<"l">>
    /\ focus \in {"output", "log"}
    /\ HasSelection(input_pane)

\* C19: the delete key opens ModalConfirm only when the output pane has focus
\* and the output list is non-empty, and then on the selected file; pressed in
\* any other Browsing situation it opens no modal and deletes nothing.
C19_DeleteKeyNeedsOutputFile ==
    [][ (DeletePressed /\ mode = "Browsing")
        => /\ mode' = "ModalConfirm" => (focus = "output" /\ output_pane.items # <<>>)
           /\ (focus = "output" /\ HasSelection(output_pane))
                 => /\ mode' = "ModalConfirm"
                    /\ sess'.file = <<output_pane.items[output_pane.selected + 1]>>
           /\ ~(focus = "output" /\ output_pane.items # <<>>)
                 => /\ mode' = "Browsing"
                    /\ Storage' = Storage
                    /\ fx'.log = <<>> ]_vars

\* the delete key was read where it does not apply, with a file in the output
\* folder to delete
C19_Witness ==
    /\ mode = "Browsing" /\ fx.ignored = <<"d">>
    /\ focus \in {"input", "log"}
    /\ output_dir # <<>>

Panes == {"input", "output", "log"}
SpecCycle(f) == IF f = "input" THEN "output" ELSE IF f = "output" THEN "log" ELSE "input"

\* C20: in Browsing the cycle-focus key moves focus input -> output -> log ->
\* input; the focus is one of the three panes, three presses in a row restore
\* it, and the key changes neither the pane selections, nor the scroll
\* positions, nor the playback handle, nor the log, nor the files.
C20_TabCycles ==
    [][ ((KeyTab \/ RunKeyTab) /\ mode = "Browsing")
        => /\ focus \in Panes /\ focus' \in Panes
           /\ focus' = SpecCycle(focus)
           /\ SpecCycle(SpecCycle(focus')) = focus
           /\ mode' = "Browsing"
           /\ input_pane' = input_pane /\ output_pane' = output_pane
           /\ log_pane' = log_pane
           /\ player_proc' = player_proc /\ procs' = procs
           /\ Storage' = Storage
           /\ fx' = NoFx ]_vars

\* the focus is back on the input pane after a full cycle made with a playback
\* running and the second input file selected
C20_Witness ==
    /\ mode = "Browsing" /\ focus = "input" /\ fx = NoFx
    /\ player_proc # NoProc
    /\ input_pane.selected = 1
    /\ log_pane.count > 0

\* the quit/abort key, in Browsing and in the three modals
QuitPressed == KeyQuit \/ RunKeyQuit \/ AbortKey

\* C21: the quit/abort key pressed in Browsing ends the event loop; pressed
\* while a modal is active it aborts the modal and returns to Browsing; and the
\* event loop never ends by a step taken inside a modal.
C21_QuitIsContextDependent ==
    [][ /\ QuitPressed => IF mode = "Browsing" THEN mode' = "Exited"
                          ELSE InModal /\ mode' = "Browsing"
        /\ mode' = "Exited" => mode = "Browsing" ]_vars

\* the event loop was left after a modal had been opened, used and left
C21_Witness ==
    /\ mode = "Exited"
    /\ tmp_files > 0
    /\ log_pane.count > 0

\* str.lower on the letters of the suffixes
lower(ch) == CASE ch = "W" -> "w" [] ch = "A" -> "a" [] ch = "V" -> "v" [] OTHER -> ch
Lowered(ext) == [ i \in 1..Len(ext) |-> lower(ext[i]) ]
Listed(p, f) == \E i \in 1..Len(p.items) : p.items[i] = f

\* C22: in Browsing, a file of the input directory is listed in the input
\* pane if and only if its suffix, compared without regard to case, is "wav".
C22_ListedIffWavAnyCase ==
    mode = "Browsing" =>
        \A i \in 1..Len(input_dir) :
            Listed(input_pane, input_dir[i]) <=> Lowered(input_dir[i].ext) = <<"w", "a", "v">>

\* the whole seconds of a target t
Floors(n, t) == n * t.d <= t.n /\ t.n < (n + 1) * t.d

\* C23: when the TUI controller saves, the output is named by the stem of
\* the input file, the 1-based position the chosen candidate had in the
\* CandidateSet shown at selection time (1 when the set has one member), and
\* the whole seconds of the target; the file of that name is in the output
\* folder afterwards.
C23_OutputNameCarriesRank ==
    [][ (PromptEnter /\ fx'.wrote # <<>>)
        => LET name == fx'.wrote[1].name
           IN  /\ name.stem = sess.file[1].stem
               /\ name.rank = IF Len(sess.candidates) = 1 THEN 1 ELSE sess.selected + 1
               /\ sess.candidates[name.rank] = sess.chosen[1]
               /\ IsFloat(sess.inp) /\ Floors(name.secs, ParseFloat(sess.inp))
               /\ HasFile(output_dir', name) ]_vars

\* the TUI controller saved a loop of the second candidate of the set
C23_Witness ==
    /\ impl = "TUI" /\ mode = "Browsing"
    /\ fx.wrote # <<>> /\ fx.wrote[1].name.rank = 2
    /\ HasFile(output_dir, fx.wrote[1].name)

\* C25: an exception raised by discovery during retry attempt k is caught and
\* logged, the attempt counts as one that found no candidate, the policy
\* goes on with attempt k+1 under the next relaxation when k < 3 and answers
\* false when k = 3; the exception never leaves the policy.
C25_RetryCatchesErrors ==
    (dpc \in {"first", "retry", "done"}) =>
        /\ retry_result \in {"none", "true", "false"}
        /\ \A i \in 1..Len(attempt_log) : attempt_log[i].outcome = "error" =>
              /\ attempt_log[i].k \in 1..retries
              /\ attempt_log[i].cands = <<>>
              /\ attempt_log[i].k < retries =>
                    IF i < Len(attempt_log)
                    THEN /\ attempt_log[i + 1].k = attempt_log[i].k + 1
                         /\ RatEq(attempt_log[i + 1].mld, Halve(attempt_log[i].mld))
                         /\ RatEq(attempt_log[i + 1].th, Scale08(attempt_log[i].th))
                    ELSE dpc = "retry" /\ retry_result = "none"
              /\ attempt_log[i].k = retries =>
                    (i = Len(attempt_log) /\ dpc = "done" /\ retry_result = "false")

\* the first retry raised and a later retry found candidates
C25_Witness ==
    /\ dpc = "done" /\ retry_result = "true" /\ Len(attempt_log) >= 3
    /\ attempt_log[2].outcome = "error"
    /\ attempt_log[Len(attempt_log)].outcome = "found"

\* the cell of the smoothed (N-4) x (N-4) matrix that holds flat index p
SmoothedCell(p) == <<p \div SmoothSide, p % SmoothSide>>

\* C27: every candidate a discovery call returns comes from an accepted peak
\* whose flat index p, unravelled with the shape of the smoothed matrix
\* (row = p div (N-4), col = p mod (N-4)), gives the candidate's start and end
\* frames: the cell used is the cell of the smoothed matrix where the peak is.
C27_PeakUnravelledInSmoothedShape ==
    \A i \in Returned : \A c \in SeqRange(attempt_log[i].cands) :
        \E p \in find_peaks(ssm_smooth, attempt_log[i].th, distance(attempt_log[i].mld)) :
            /\ c.start = SmoothedCell(p)[1] * hop_length
            /\ c.end = SmoothedCell(p)[2] * hop_length

\* an up/down key in Browsing, under either controller
UpDownKey == KeyUpDown \/ RunKeyUpDown

\* C28: in Browsing, after an up/down key handled with the input or output
\* pane focused, no playback handle is active: the process of a handle that
\* was active is terminated and the handle cleared. With the log pane focused
\* the key only scrolls the log: handle, processes and selections are as
\* before.
C28_NavigationStopsPlayback ==
    [][ (UpDownKey /\ mode = "Browsing")
        => IF focus \in {"input", "output"}
           THEN /\ player_proc' = NoProc
                /\ procs' = { q \in procs : q.pid # player_proc }
                /\ fx'.stopped = IF player_proc # NoProc THEN <<player_proc>> ELSE <<>>
                /\ log_pane' = log_pane
           ELSE /\ player_proc' = player_proc /\ procs' = procs
                /\ Selections' = Selections
                /\ log_pane'.count = log_pane.count
                /\ fx' = NoFx ]_vars

\* an up/down key in a list pane stopped a running playback and moved the
\* selection
C28_Witness ==
    /\ mode = "Browsing" /\ focus = "output"
    /\ fx.stopped # <<>> /\ player_proc = NoProc
    /\ \A q \in procs : q.pid # fx.stopped[1]
    /\ HasSelection(output_pane)

\* C29: in AudioLooperApp.run, after a confirmed deletion of the selected
\* output file, at the next loop iteration idx_out addresses an item of the
\* refreshed output list whenever that list is not empty.
C29_IndexValidAfterDelete ==
    [][ (RunConfirmEnter /\ sess.confirm /\ mode' = "Browsing" /\ output_pane'.items # <<>>)
        => (0 <= output_pane'.selected /\ output_pane'.selected < Len(output_pane'.items)) ]_vars

\* C30: in AudioLooperApp.run, when discovery yields exactly one candidate and
\* a valid target is submitted, the save completes and the output name carries
\* rank 1, on the first loop session of the run and after any earlier one.
C30_SingleCandidateSavesRankOne ==
    [][ (RunPromptEnter /\ Len(sess.candidates) = 1 /\ ~Rejected(sess.inp, sess.chosen[1]))
        => /\ mode' = "Browsing"
           /\ fx'.wrote # <<>>
           /\ fx'.wrote[1].name.rank = 1 ]_vars

\* C35: immediately after any message is added to the log pane, the newest
\* message (index count - 1) lies inside the window of lines the log pane
\* renders, indices scroll .. scroll + height - 1, whatever the number of
\* messages already in the log.
C35_NewestMessageVisible ==
    fx.log # <<>> =>
        /\ log_pane.scroll <= log_pane.count - 1
        /\ log_pane.count - 1 <= log_pane.scroll + LogRows - 1

\* the play/stop key in Browsing, under either controller
PlayKey == KeyPlay \/ RunKeyPlay
Pids(ps) == { q.pid : q \in ps }

\* C37: whenever a playback handle is active in Browsing, one press of the
\* play/stop key terminates it, whichever pane has focus and whether or not
\* the focused list is empty.
C37_PlayKeyAlwaysStops ==
    [][ (PlayKey /\ mode = "Browsing" /\ player_proc # NoProc)
        => /\ player_proc' = NoProc
           /\ player_proc \notin Pids(procs')
           /\ mode' = "Browsing" ]_vars

\* C38: when ModalSelect closes, by select or by abort, the preview process
\* started inside the modal is not left running.
C38_PreviewStoppedOnClose ==
    [][ (mode = "ModalSelect" /\ mode' # "ModalSelect" /\ sess.modal_player # NoProc)
        => sess.modal_player \notin Pids(procs') ]_vars

\* C39: with the log pane focused, the play/stop key spawns no playback
\* process, whatever the input and output lists hold, and does not fail.
C39_PlayKeyIdleOnLog ==
    [][ (PlayKey /\ mode = "Browsing" /\ focus = "log")
        => /\ procs' \subseteq procs
           /\ fx'.played = <<>>
           /\ mode' = "Browsing" ]_vars

----
\* Repeated discovery on one looper: find_seamless_loop_points called again
\* with the waveform and the parameters unchanged, on a looper whose
\* loop_candidates field holds what an earlier call left there

MaxCalls == 2

\* a list that starts from what the looper holds
held_list(held) == held
\* "loop_candidates: List[LoopCandidate] = []": the list the call appends to
new_list(held) == <<>>

\* one call on a looper whose loop_candidates field is held
call_find(held, x, S, mld, th) ==
    Truncate(SortByScore(new_list(held) \o AllSurvivors(x, S, mld, th)), num_candidates)

\* what calls with other parameters leave in the field
Leftovers(x, S) ==
    {<<>>} \cup { find_seamless_loop_points(x, S, m, t) :
                    m \in MinLoopDurations, t \in PeakThresholds }

InitRepeat ==
    /\ IdleLog
    /\ IdleSynth /\ IdlePane /\ IdleController
    /\ ssm_smooth \in CombSignals
    /\ ssm \in AffinityMatrices
    /\ min_loop_duration_sec \in MinLoopDurations
    /\ peak_height_threshold \in PeakThresholds
    /\ loop_candidates \in Leftovers(ssm_smooth, ssm)
    /\ orig = [mld |-> min_loop_duration_sec, th |-> peak_height_threshold,
               held |-> loop_candidates]
    /\ dpc = "repeat" /\ attempt = 0 /\ retry_result = "none" /\ attempt_log = <<>>

Rediscover ==
    /\ dpc = "repeat"
    /\ attempt < MaxCalls
    /\ LET cs == call_find(loop_candidates, ssm_smooth, ssm,
                           min_loop_duration_sec, peak_height_threshold)
       IN  /\ loop_candidates' = cs
           /\ attempt' = attempt + 1
           /\ attempt_log' = Append(attempt_log,
                  LogEntry(attempt + 1, min_loop_duration_sec, peak_height_threshold,
                           IF cs = <<>> THEN "empty" ELSE "found", cs))
    /\ UNCHANGED <<ssm_smooth, ssm, min_loop_duration_sec, peak_height_threshold, orig,
                   dpc, retry_result, others_d>>

NextRepeat == Rediscover

SpecRepeat == InitRepeat /\ [][NextRepeat]_vars

\* C24: calls of find_seamless_loop_points on the same waveform with the same
\* min_loop_duration_sec, peak_height_threshold and num_candidates return the
\* same CandidateSet, the one a looper that never ran discovery returns,
\* whatever loop_candidates held before the calls.
C24_DiscoveryIdempotent ==
    dpc = "repeat" =>
        \A i \in 1..Len(attempt_log) :
            /\ attempt_log[i].cands = attempt_log[1].cands
            /\ attempt_log[i].cands =
                   call_find(<<>>, ssm_smooth, ssm, orig.mld, orig.th)
            /\ loop_candidates = attempt_log[Len(attempt_log)].cands

\* two calls were made on a looper that held another, non-empty CandidateSet
C24_Witness ==
    /\ dpc = "repeat" /\ Len(attempt_log) = 2
    /\ orig.held # <<>>
    /\ attempt_log[2].cands # <<>>
    /\ attempt_log[2].cands # orig.held

----
\* CompressingRotatingFileHandler: the files of the logs folder under rollovers.
\* lg.base is the open log file, lg.plain the file "<base>.1", lg.gz[i] the
\* file "<base>.i.gz"; a file is a sequence, empty when absent. A content is
\* named by the rollover that rotates it (gen) and its size in bytes; a
\* compressed file also carries its modification time.

MaxBackups == 3
MaxRollovers == 5
MaxBytes == 4
RecordSizes == {1, 2}
GzNames == 1..MaxBackups

Absent == <<>>
Exists(f) == f # Absent

\* a rollover that moves no backup
no_shift(gz, i) == gz

\* "for i in range(self.backupCount - 1, 0, -1)": <base>.i.gz is renamed to
\* <base>.(i+1).gz, which is removed first when it exists
RECURSIVE shift_backups(_, _)
shift_backups(gz, i) ==
    IF i < 1 THEN gz
    ELSE shift_backups(IF Exists(gz[i])
                       THEN [gz EXCEPT ![i + 1] = gz[i], ![i] = Absent]
                       ELSE gz,
                       i - 1)

\* compress_log("<base>.1"): gzip.open(..., "wb") creates or overwrites the .gz
compress_log(gz, plain, now) == [gz EXCEPT ![1] = <<[content |-> plain[1], mtime |-> now]>>]

\* cleanup_old_logs: the .gz files sorted by modification time, the oldest
\* removed while there are more than backupCount
RECURSIVE cleanup_old_logs(_, _)
cleanup_old_logs(gz, n) ==
    LET files == { i \in GzNames : Exists(gz[i]) }
    IN  IF Cardinality(files) <= n THEN gz
        ELSE LET oldest == CHOOSE i \in files :
                               \A j \in files : gz[i][1].mtime <= gz[j][1].mtime
             IN  cleanup_old_logs([gz EXCEPT ![oldest] = Absent], n)

\* doRollover on the handler state h
doRollover(h) ==
    LET shifted == shift_backups(h.gz, h.n - 1)
        rotated == IF h.n > 0
                   THEN [h EXCEPT !.gz = compress_log(shifted, <<h.base>>, h.clock + 1),
                                  !.plain = Absent]
                   ELSE h
    IN  [rotated EXCEPT !.base = [gen |-> h.r + 2, bytes |-> 0],
                        !.gz = cleanup_old_logs(rotated.gz, h.n),
                        !.r = h.r + 1,
                        !.clock = h.clock + 1]

\* LoggingManager.setup: the handler on a logs folder with no backup; a
\* "<base>.1" may have been left behind
InitLog ==
    /\ IdleDiscovery /\ IdleSynth /\ IdlePane /\ IdleController
    /\ \E n \in 1..MaxBackups, stale \in BOOLEAN :
         lg = [n |-> n,
               base |-> [gen |-> 1, bytes |-> 0],
               plain |-> IF stale THEN <<[gen |-> 0, bytes |-> 1]>> ELSE Absent,
               gz |-> [ i \in GzNames |-> Absent ],
               r |-> 0, clock |-> 0]

\* RotatingFileHandler.emit of a record of len bytes: the rollover happens
\* first when the record would fill the file
Emit ==
    /\ lg.n > 0
    /\ \E len \in RecordSizes :
         IF lg.base.bytes + len >= MaxBytes
         THEN /\ lg.r < MaxRollovers
              /\ lg' = [doRollover(lg) EXCEPT !.base.bytes = len]
         ELSE lg' = [lg EXCEPT !.base.bytes = lg.base.bytes + len]
    /\ UNCHANGED <<dvars, svars, pvars, cvars>>

NextLog == Emit

SpecLog == InitLog /\ [][NextLog]_vars

\* C26: with backupCount = n >= 1, after r rollovers the compressed backups
\* present are exactly <base>.1.gz .. <base>.min(r, n).gz, <base>.i.gz holds
\* the content rotated i - 1 rollovers before the last one (the newest at
\* index 1), and there are never more than n of them.
C26_BackupsShiftAndCap ==
    lg.n >= 1 =>
        /\ { i \in GzNames : Exists(lg.gz[i]) } = 1..Min2(lg.r, lg.n)
        /\ \A i \in 1..Min2(lg.r, lg.n) : lg.gz[i][1].content.gen = lg.r - i + 1
        /\ Cardinality({ i \in GzNames : Exists(lg.gz[i]) }) <= lg.n

\* more rollovers than backups kept: the oldest content was discarded
C26_Witness ==
    /\ lg.n = 2 /\ lg.r = 3
    /\ Exists(lg.gz[2]) /\ lg.gz[2][1].content.gen = 2
    /\ ~Exists(lg.gz[3])

----
\* The loop session with a fractional target: a folder that holds "a" and "g",
\* and a duration typed with up to MaxTarget characters

MaxTarget == 2
TargetChars == {"0", "1", "."}
TargetFolder == <<WavFile("a"), WavFile("g")>>

InitTarget == InitOn({ <<TargetFolder, <<>>>> })

TypeTarget == PromptTypes(MaxTarget, TargetChars)
RunTypeTarget == RunPromptTypes(MaxTarget, TargetChars)

NextTarget ==
    \/ KeyUpDown \/ KeyLoop
    \/ SelectQuit \/ SelectUpDown \/ SelectEnter
    \/ TypeTarget \/ PromptBackspace \/ PromptQuit \/ PromptEnter
    \/ RunKeyUpDown \/ RunKeyLoop
    \/ RunSelectQuit \/ RunSelectUpDown \/ RunSelectEnter
    \/ RunTypeTarget \/ RunPromptBackspace \/ RunPromptQuit \/ RunPromptEnter

SpecTarget == InitTarget /\ [][NextTarget]_vars

\* C36: in the interactive flow, every synthesis that runs after the duration
\* validation has passed repeats the segment at least twice: the branch of
\* create_looped_audio that forces one repetition is never taken, for any
\* CandidateSet and any candidate chosen in ModalSelect.
C36_AtLeastTwoRepetitions ==
    fx.wrote # <<>> => fx.wrote[1].audio.reps >= 2

----
\* The controller beside another program that removes files of the output
\* folder while the controller waits for a key

\* a file of the output folder is removed from outside; the panes keep the
\* listing they were given
ExternalRemove ==
    /\ mode \in {"Browsing", "ModalSelect", "ModalPrompt", "ModalConfirm"}
    /\ \E i \in 1..Len(output_dir) : output_dir' = unlink(output_dir, output_dir[i].name)
    /\ fx' = NoFx
    /\ UNCHANGED <<impl, mode, focus, input_dir, input_pane, output_pane, log_pane,
                   player_proc, procs, sess, tmp_files, dvars, svars, pvars, lvars>>

NextRace == Next \/ ExternalRemove

SpecRace == Init /\ [][NextRace]_vars

\* C33: if the selected output file is removed from outside after the output
\* list was read and before the user confirms yes in ModalConfirm, the delete
\* step fails with an error that leaves the event loop: the controller does
\* not return to Browsing, and nothing is logged or deleted.
C33_VanishedFileEndsController ==
    [][ (ConfirmKeyEnter /\ mode = "ModalConfirm" /\ sess.confirm
           /\ ~HasFile(output_dir, sess.file[1]))
        => /\ mode' = "Crashed"
           /\ fx'.log = <<>>
           /\ output_dir' = output_dir
           /\ log_pane' = log_pane ]_vars

\* the controller ended on the confirmed deletion of a file that had vanished
C33_Witness ==
    /\ mode = "Crashed"
    /\ sess.kind = "delete" /\ sess.confirm
    /\ InListing(output_pane, sess.file[1])
    /\ ~HasFile(output_dir, sess.file[1])

----
\* Loop sessions of one run: each press of the loop key constructs a looper
\* from the application's configuration, and the retry policy relaxes the
\* fields of that looper. orig is the configuration, with the number of
\* sessions started and of relaxations applied by the sessions that ended.

MaxSessions == 2

\* a construction argument taken from the looper of the session before
left_by_looper(configured, left) == left

\* "min_loop_duration_sec=self.min_loop_duration or 0.1" and
\* "peak_height_threshold=self.peak_threshold": the application's own fields
from_app(configured, left) == configured

InitSessions ==
    /\ IdleLog /\ IdleSynth /\ IdlePane /\ IdleController
    /\ ssm_smooth = <<>> /\ ssm = <<>>
    /\ min_loop_duration_sec \in MinLoopDurations
    /\ peak_height_threshold \in PeakThresholds
    /\ loop_candidates = <<>>
    /\ orig = [mld |-> min_loop_duration_sec, th |-> peak_height_threshold,
               sessions |-> 0, relaxed |-> 0]
    /\ dpc = "idle" /\ attempt = 0 /\ retry_result = "none" /\ attempt_log = <<>>

\* key == ord('l'): looper = SirenLooper(selected.name, ...) on any file
NewSession ==
    /\ dpc \in {"idle", "done"}
    /\ orig.sessions < MaxSessions
    /\ ssm_smooth' \in SmoothInputs
    /\ ssm' \in AffinityMatrices
    /\ min_loop_duration_sec' = from_app(orig.mld, min_loop_duration_sec)
    /\ peak_height_threshold' = from_app(orig.th, peak_height_threshold)
    /\ loop_candidates' = <<>>
    /\ orig' = [orig EXCEPT !.sessions = @ + 1, !.relaxed = @ + attempt]
    /\ dpc' = "first" /\ attempt' = 0 /\ retry_result' = "none" /\ attempt_log' = <<>>
    /\ UNCHANGED others_d

NextSessions == NewSession \/ FirstAttempt \/ RetryAttempt

SpecSessions == InitSessions /\ [][NextSessions]_vars

\* C31: every press of the loop key starts discovery with the configured
\* min_loop_duration_sec and peak_height_threshold, however many relaxations
\* the earlier sessions, on the same or on another file, have applied; the
\* configuration itself never changes.
C31_SessionStartsFromConfiguration ==
    /\ (dpc = "first") =>
           /\ min_loop_duration_sec = orig.mld
           /\ peak_height_threshold = orig.th
    /\ attempt_log # <<>> =>
           /\ attempt_log[1].k = 0
           /\ attempt_log[1].mld = orig.mld
           /\ attempt_log[1].th = orig.th
    /\ orig.mld \in MinLoopDurations /\ orig.th \in PeakThresholds

\* a second session made its first discovery call after a session that
\* relaxed the parameters three times
C31_Witness ==
    /\ orig.sessions = 2 /\ orig.relaxed = 3
    /\ attempt_log # <<>>
    /\ attempt_log[1].mld = orig.mld

----
\* The duration prompt: PromptModal.show (tui/modals.py) and the prompt
\* written inline in AudioLooperApp.run, one step per key read by getch. Keys
\* are the codes getch returns, the text is the sequence of the codes of its
\* characters. sess holds the text, the key read last and what was returned.

MaxTyped == 11

\* the keys read: '5', '.', 'x', KEY_UP, KEY_BACKSPACE, DEL, Enter, carriage
\* return and 'q'
EnterKeys == {10, 13}
BackspaceKeys == {263, 127}
QuitKey == 113
TypedKeys == {53, 46}
IdleKeys == {120, 259}

\* str.isdigit on chr(k), for k below 512: the decimal digits and the
\* superscripts one, two and three
isdigit(k) == k \in (48..57) \cup {178, 179, 185}
\* the characters str.strip removes, below 512
isspace(k) == k \in {9, 10, 11, 12, 13, 28, 29, 30, 31, 32, 133, 160}

RECURSIVE lstrip(_)
lstrip(t) == IF t # <<>> /\ isspace(t[1]) THEN lstrip(Tail(t)) ELSE t
RECURSIVE rstrip(_)
rstrip(t) == IF t # <<>> /\ isspace(t[Len(t)]) THEN rstrip(SubSeq(t, 1, Len(t) - 1)) ELSE t
strip(t) == rstrip(lstrip(t))

\* "if len(inp_str) < 10" of the inline prompt; PromptModal has no such test
below_cap(t) == impl = "run" => Len(t) < InputCap

PromptState(inp, key, returned) ==
    [kind |-> "prompt", inp |-> inp, key |-> key, returned |-> returned]

InitPrompt ==
    /\ IdleLog /\ IdleDiscovery /\ IdleSynth /\ IdlePane
    /\ impl \in {"TUI", "run"}
    /\ mode = "ModalPrompt" /\ focus = "input"
    /\ input_dir = <<>> /\ output_dir = <<>>
    /\ input_pane = NewListPane /\ output_pane = NewListPane
    /\ log_pane = [count |-> 0, scroll |-> 0]
    /\ fx = NoFx /\ player_proc = NoProc /\ procs = {}
    /\ sess = PromptState(<<>>, <<>>, <<>>)
    /\ tmp_files = 0

ShowFrame ==
    UNCHANGED <<impl, focus, input_dir, output_dir, input_pane, output_pane, log_pane,
                fx, player_proc, procs, tmp_files, dvars, svars, pvars, lvars>>

\* k in (10, 13): break, then "return ... inp.strip()"
ShowEnter ==
    /\ mode = "ModalPrompt"
    /\ \E k \in EnterKeys :
         sess' = PromptState(sess.inp, <<k>>, <<[text |-> strip(sess.inp)]>>)
    /\ mode' = "Returned"
    /\ ShowFrame

\* k == ord('q'): aborted, "return None"
ShowQuit ==
    /\ mode = "ModalPrompt"
    /\ sess' = PromptState(sess.inp, <<QuitKey>>, <<"None">>)
    /\ mode' = "Returned"
    /\ ShowFrame

\* k in (KEY_BACKSPACE, 127)
ShowBackspace ==
    /\ mode = "ModalPrompt"
    /\ \E k \in BackspaceKeys :
         sess' = PromptState(IF sess.inp # <<>>
                             THEN SubSeq(sess.inp, 1, Len(sess.inp) - 1) ELSE sess.inp,
                             <<k>>, <<>>)
    /\ UNCHANGED mode
    /\ ShowFrame

\* any other key: "if ch.isdigit() or ch == '.'" appends it
ShowOther ==
    /\ mode = "ModalPrompt"
    /\ \E k \in TypedKeys \cup IdleKeys :
         /\ (isdigit(k) \/ k = 46) => Len(sess.inp) < MaxTyped
         /\ sess' = PromptState(IF (isdigit(k) \/ k = 46) /\ below_cap(sess.inp)
                                THEN Append(sess.inp, k) ELSE sess.inp,
                                <<k>>, <<>>)
    /\ UNCHANGED mode
    /\ ShowFrame

NextPrompt == ShowEnter \/ ShowQuit \/ ShowBackspace \/ ShowOther

SpecPrompt == InitPrompt /\ [][NextPrompt]_vars

\* the characters the claim lets into the text: the digits 0-9 and '.'
Numeric(k) == k \in (48..57) \cup {46}

\* C32: in the duration prompt the text holds only digits and '.'; a digit or
\* '.' key appends that character, backspace removes exactly the last
\* character and does nothing to an empty text, every other key that does not
\* end the prompt leaves the text unchanged, and submit returns exactly the
\* text typed.
C32_PromptTextEdits ==
    [][ /\ \A i \in 1..Len(sess'.inp) : Numeric(sess'.inp[i])
        /\ (mode' = "ModalPrompt" /\ sess'.key # <<>>) =>
              LET k == sess'.key[1]
              IN  sess'.inp = IF Numeric(k) THEN Append(sess.inp, k)
                              ELSE IF k \in BackspaceKeys /\ sess.inp # <<>>
                                   THEN SubSeq(sess.inp, 1, Len(sess.inp) - 1)
                                   ELSE sess.inp
        /\ (mode' = "Returned" /\ sess'.key[1] \in EnterKeys) =>
              sess'.returned = <<[text |-> sess.inp]>> ]_vars

----
\* SirenLooper.process_and_save called on a looper, whatever its
\* loop_candidates field holds: syn is the call and its outcome, output_dir the
\* output folder, orig the looper as it was before the call

SaveTargets == { Rat(1, 4), Rat(1, 2) }
\* the minimum durations of the looper: the configurations, and the default
\* after three relaxations (min_loop_samples below hop_length)
SaveDurations == MinLoopDurations \cup { Rat(1, 80) }

\* f"{base_name}_looped_{int(target_duration_sec)}s.wav"
default_name(t) == [stem |-> "input", rank |-> "looped", secs |-> int(t)]

InitSave ==
    /\ IdleLog /\ IdlePane /\ IdleController
    /\ y = <<>>
    /\ \E t \in SaveTargets : syn = [pc |-> "call", target |-> t]
    /\ ssm_smooth \in SmoothInputs
    /\ ssm \in AffinityMatrices
    /\ min_loop_duration_sec \in SaveDurations
    /\ peak_height_threshold \in PeakThresholds
    /\ loop_candidates \in Leftovers(ssm_smooth, ssm)
    /\ orig = [mld |-> min_loop_duration_sec, th |-> peak_height_threshold,
               held |-> loop_candidates]
    /\ dpc = "save" /\ attempt = 0 /\ retry_result = "none" /\ attempt_log = <<>>

\* process_and_save(target), lines 171-192
ProcessAndSave ==
    /\ dpc = "save" /\ syn.pc = "call"
    /\ LET found == IF loop_candidates = <<>>
                    THEN find_seamless_loop_points(ssm_smooth, ssm, min_loop_duration_sec,
                                                   peak_height_threshold)
                    ELSE loop_candidates
           best_loop == get_best_loop(found)
       IN  /\ loop_candidates' = found
           /\ attempt' = IF loop_candidates = <<>> THEN 1 ELSE 0
           /\ IF best_loop = <<>>
              THEN /\ syn' = [pc |-> "raised", target |-> syn.target, best |-> best_loop,
                              error |-> "No suitable loop points found."]
                   /\ UNCHANGED output_dir
              ELSE IF duration_samples(best_loop[1]) = 0
              THEN \* create_looped_audio(best_loop, ...): "target // 0.0"
                   /\ syn' = [pc |-> "raised", target |-> syn.target, best |-> best_loop,
                              error |-> "float floor division by zero"]
                   /\ UNCHANGED output_dir
              ELSE LET result == process_and_save(found, syn.target, default_name(syn.target))
                   IN  /\ syn' = [pc |-> "returned", target |-> syn.target,
                                  best |-> best_loop, result |-> result]
                       /\ output_dir' = WriteFile(output_dir, result)
    /\ UNCHANGED <<ssm_smooth, ssm, min_loop_duration_sec, peak_height_threshold, orig,
                   dpc, retry_result, attempt_log, y, pvars, lvars,
                   impl, mode, focus, input_dir, input_pane, output_pane, log_pane,
                   fx, player_proc, procs, sess, tmp_files>>

NextSave == ProcessAndSave

SpecSave == InitSave /\ [][NextSave]_vars

\* C34: process_and_save on a looper whose stored CandidateSet is empty first
\* runs discovery again; if the set is still empty it raises "No suitable loop
\* points found." and writes no file and returns no ProcessResult; when there
\* are candidates (stored, or just discovered) the candidate handed to the
\* synthesis is always the first of them, the file written and returned is
\* made of that segment, and a stored non-empty set is used as it is. (The
\* synthesis of a first candidate of no length divides by zero and writes
\* nothing.)
C34_SaveUsesFirstStored ==
    syn.pc # "call" =>
        LET fresh == find_seamless_loop_points(ssm_smooth, ssm, orig.mld, orig.th)
            used  == IF orig.held = <<>> THEN fresh ELSE orig.held
        IN  /\ loop_candidates = used
            /\ attempt = IF orig.held = <<>> THEN 1 ELSE 0
            /\ IF used = <<>>
               THEN /\ syn.pc = "raised"
                    /\ syn.error = "No suitable loop points found."
                    /\ syn.best = <<>>
                    /\ output_dir = <<>>
               ELSE /\ syn.best = <<used[1]>>
                    /\ \A c \in SeqRange(used) : c.score <= used[1].score
                    /\ IF used[1].start < used[1].end
                       THEN /\ syn.pc = "returned"
                            /\ syn.result.audio.start = used[1].start
                            /\ syn.result.audio.end = used[1].end
                            /\ syn.result.audio.reps =
                                   num_reps(used[1], syn.target, SampleRate)
                            /\ output_dir = <<syn.result>>
                       ELSE /\ syn.pc = "raised"
                            /\ syn.error # "No suitable loop points found."
                            /\ output_dir = <<>>

\* the stored set was empty, discovery ran again and found several candidates,
\* and the file was made from the first
C34_Witness ==
    /\ syn.pc = "returned" /\ orig.held = <<>> /\ attempt = 1
    /\ Len(loop_candidates) >= 2
    /\ output_dir # <<>>
    /\ output_dir[1].audio.end = loop_candidates[1].end

====
